---- MODULE Spec2Model ----
(***************************************************************************)
(* A model of gridit's grid-polygon conversion (src/gridit/gridpolyconv.py)*)
(*                                                                         *)
(* A grid of nrow x ncol cells is modelled by its cells in C order, 1..n.  *)
(* A 2D array is a sequence over the cells, a 3D array (nlev, nrow, ncol)  *)
(* is a sequence of such sequences, one per level.                         *)
(* numpy floats are modelled by exact rationals <<n, d>> in lowest terms   *)
(* (d > 0); rounding of IEEE doubles is outside the model.                 *)
(* Python's None is a record of kind "None" (for an array: ndim 0, for the *)
(* weight: the empty sequence).  Python sequences are 0-based, the         *)
(* sequences here are 1-based: a[k] in the code is a[k + 1] here.          *)
(***************************************************************************)
EXTENDS Integers, Sequences, FiniteSets, TLC

(***************************************************************************)
(* Bounds of the model.                                                    *)
(***************************************************************************)
\* a directly constructed array holds at most MaxSize elements
MaxSize == 2
\* largest count a directly constructed ar_count holds
MaxCount == 1
\* the caller writes at most MaxWrites times to the arrays it passed
MaxWrites == 1
\* refine factors, levels and features of a from_grid_vector call
MaxRefine == 2
MaxLevels == 2
MaxFeatures == 2
\* cache files on disk when a from_grid_vector call with caching starts
MaxFiles == 2

\* Python's None, where an object, an array or the weight is expected
None == [kind |-> "None"]
NoArray == [ndim |-> 0, a |-> <<>>]
NoWeight == <<>>

\* attribute values (polygon keys) the inputs are drawn from
AttrVals == {10, 20, 30}
\* the caller's values and fill are drawn from these
Vals == {0, 1}
Fills == {0, 1}

(***************************************************************************)
(* Arithmetic helpers: exact rationals in lowest terms.                    *)
(***************************************************************************)
Abs(x) == IF x < 0 THEN -x ELSE x

RECURSIVE GCD(_, _)
GCD(a, b) == IF b = 0 THEN a ELSE GCD(b, a % b)

\* n / d for d > 0, in lowest terms
Rat(n, d) ==
    LET g == GCD(Abs(n), d) IN
    IF n = 0 THEN <<0, 1>> ELSE <<n \div g, d \div g>>

RatAdd(x, y) == Rat(x[1] * y[2] + y[1] * x[2], x[2] * y[2])
RatMul(x, y) == Rat(x[1] * y[1], x[2] * y[2])
RatSub(x, y) == RatAdd(x, <<-y[1], y[2]>>)
RatLeq(x, y) == x[1] * y[2] <= y[1] * x[2]
FromInt(v) == <<v, 1>>

\* np.clip(x, lo, hi) on one element
Clip(x, lo, hi) == IF RatLeq(x, lo) THEN lo ELSE IF RatLeq(hi, x) THEN hi ELSE x

\* sum of a sequence of rationals (ndarray.sum(0) at one cell)
RECURSIVE RatSum(_)
RatSum(s) == IF s = <<>> THEN <<0, 1>> ELSE RatAdd(s[1], RatSum(Tail(s)))

RECURSIVE IntSum(_)
IntSum(s) == IF s = <<>> THEN 0 ELSE s[1] + IntSum(Tail(s))

Range(s) == {s[i] : i \in 1..Len(s)}

(***************************************************************************)
(* GridPolyConv.__init__                                                   *)
(* An array argument is [ndim |-> 2, a |-> f] with f a sequence over the   *)
(* cells, or [ndim |-> 3, a |-> <<f1, .., fn>>].                           *)
(***************************************************************************)
ValueError(msg) == [kind |-> "ValueError", msg |-> msg]

\* the shape of an array: (ncell,) for a 2D array on the grid, (nlev, ncell) for 3D
Shape(ar) == IF ar.ndim = 2 THEN <<Len(ar.a)>> ELSE <<Len(ar.a), Len(ar.a[1])>>

\* the cells of an array
Cells(ar) == IF ar.ndim = 2 THEN DOMAIN ar.a ELSE DOMAIN ar.a[1]

\* ar_count.sum(0) at every cell
Denominator(ar_count) ==
    [c \in Cells(ar_count) |-> IntSum([l \in 1..Len(ar_count.a) |-> ar_count.a[l][c]])]

\* weight: ar_count / denominator where the denominator is non-zero, else 0
Weight(ar_count) ==
    LET denominator == Denominator(ar_count) IN
    [l \in 1..Len(ar_count.a) |->
        [c \in Cells(ar_count) |->
            IF denominator[c] # 0
            THEN Rat(ar_count.a[l][c], denominator[c])
            ELSE <<0, 1>>]]

\* the object __init__ leaves behind, or the ValueError it raises
GridPolyConv(poly_idx, idx_ar, ar_count) ==
    IF Len(poly_idx) # Cardinality(Range(poly_idx))
    THEN ValueError("poly_idx values are not unique")
    ELSE IF idx_ar.ndim = 2
    THEN [kind |-> "GridPolyConv",
          poly_idx |-> poly_idx,
          idx_ar |-> idx_ar,
          ar_count |-> NoArray,
          weight |-> NoWeight,
          mask |-> [c \in Cells(idx_ar) |-> idx_ar.a[c] = 0]]
    ELSE IF idx_ar.ndim = 3
    THEN IF ar_count = NoArray
         THEN ValueError("ar_count must be specified if idx_ar is 3D")
         ELSE IF Shape(ar_count) # Shape(idx_ar)
         THEN ValueError("ar_count shape must match idx_ar")
         ELSE [kind |-> "GridPolyConv",
               poly_idx |-> poly_idx,
               idx_ar |-> idx_ar,
               ar_count |-> ar_count,
               weight |-> Weight(ar_count),
               mask |-> [c \in Cells(idx_ar) |-> idx_ar.a[1][c] = 0]]
    ELSE ValueError("idx_ar ndim must be 2 or 3")

(***************************************************************************)
(* GridPolyConv.array_from_values                                          *)
(* values is [ndim |-> n, rows |-> <<row, ..>>]: one row when ndim = 1,    *)
(* the rows of the leading dimension when ndim = 2.                        *)
(***************************************************************************)
\* values.shape[-1]
LastDim(values) == Len(values.rows[1])

\* list.index(x): the first position of x
ListIndex(index, x) ==
    CHOOSE i \in 1..Len(index) :
        index[i] = x /\ \A j \in 1..(i - 1) : index[j] # x

Order_AsGiven(self, index) == [k \in 1..Len(self.poly_idx) |-> k]

\* order: for every key of poly_idx, its position in index
Order(self, index) ==
    [k \in 1..Len(self.poly_idx) |-> ListIndex(index, self.poly_idx[k])]

\* values[order]
TakeOrder(row, order) == [k \in 1..Len(order) |-> row[order[k]]]

Insert0_Append(row, fill) == row \o <<fill>>

\* np.insert(values, 0, fill)
Insert0(row, fill) == <<fill>> \o row

\* vals[idx2d]: gather by a 2D index array (index 0 is the inserted fill)
Gather(vals, idx2d) == [c \in DOMAIN idx2d |-> vals[idx2d[c] + 1]]

WeightedSum_FirstLevel(self, vals) ==
    [c \in Cells(self.idx_ar) |->
        RatMul(FromInt(Gather(vals, self.idx_ar.a[1])[c]), self.weight[1][c])]

\* (ar_values * self.weight).sum(0)
WeightedSum(self, vals) ==
    [c \in Cells(self.idx_ar) |->
        RatSum([l \in 1..Len(self.idx_ar.a) |->
            RatMul(FromInt(Gather(vals, self.idx_ar.a[l])[c]),
                   self.weight[l][c])])]

\* one row of values spread over the grid
Spread(self, vals) ==
    IF self.weight = NoWeight
    THEN [c \in Cells(self.idx_ar) |-> FromInt(Gather(vals, self.idx_ar.a)[c])]
    ELSE WeightedSum(self, vals)

\* outside = (1.0 - clip(weight.sum(0), 0, 1)) * fill
Outside(self, fill) ==
    [c \in Cells(self.idx_ar) |->
        RatMul(RatSub(<<1, 1>>,
                      Clip(RatSum([l \in 1..Len(self.weight) |-> self.weight[l][c]]),
                           <<0, 1>>, <<1, 1>>)),
               FromInt(fill))]

\* ar += outside, applied when fill is truthy and the mapping is refined
AddOutside(self, ar, fill) ==
    IF fill # 0 /\ self.weight # NoWeight
    THEN [c \in Cells(self.idx_ar) |-> RatAdd(ar[c], Outside(self, fill)[c])]
    ELSE ar

\* values subset and re-ordered to poly_idx when index differs from it
Reordered(self, index, values) ==
    IF index # self.poly_idx
    THEN [r \in 1..Len(values.rows) |->
            TakeOrder(values.rows[r], Order(self, index))]
    ELSE values.rows

\* the checks on the shape of values (lines 546-555): the message raised, or ""
ShapeCheck(index, values, enforce1d) ==
    IF values.ndim \notin {1, 2}
    THEN "expected values to have 1 or 2 dimensions"
    ELSE IF Len(index) # LastDim(values)
    THEN "length of last dimension of values does not match index length"
    ELSE IF enforce1d /\ values.ndim # 1
    THEN "values must have one dimension"
    ELSE ""

KeyCheck_SupersetFirst(self, index) ==
    IF ~(Range(self.poly_idx) \subseteq Range(index))
    THEN "index is not a superset of poly_idx"
    ELSE IF Range(index) \cap Range(self.poly_idx) = {}
    THEN "index is disjoint from poly_idx"
    ELSE ""

\* the checks of index against poly_idx (lines 556-562): the message raised, or ""
KeyCheck(self, index) ==
    IF Range(index) \cap Range(self.poly_idx) = {}
    THEN "index is disjoint from poly_idx"
    ELSE IF ~(Range(self.poly_idx) \subseteq Range(index))
    THEN "index is not a superset of poly_idx"
    ELSE ""

array_from_values(self, index, values, fill, enforce1d) ==
    IF ShapeCheck(index, values, enforce1d) # ""
    THEN ValueError(ShapeCheck(index, values, enforce1d))
    ELSE IF KeyCheck(self, index) # ""
    THEN ValueError(KeyCheck(self, index))
    ELSE LET rows == Reordered(self, index, values) IN
         [kind |-> "array",
          ndim |-> values.ndim + 1,
          data |-> [r \in 1..Len(rows) |->
                      AddOutside(self, Spread(self, Insert0(rows[r], fill)), fill)],
          mask |-> self.mask]

(***************************************************************************)
(* Serialization: __iter__, __getstate__, __setstate__, to_pickle and      *)
(* from_pickle.  A pickled array is its shape and its elements in C order. *)
(***************************************************************************)
getstate_CountFromIndex(self) ==
    [poly_idx |-> self.poly_idx, idx_ar |-> self.idx_ar, ar_count |-> self.idx_ar]

\* dict(self): the three datasets __iter__ yields
getstate(self) ==
    [poly_idx |-> self.poly_idx, idx_ar |-> self.idx_ar, ar_count |-> self.ar_count]

RECURSIVE Concat(_)
Concat(ss) == IF ss = <<>> THEN <<>> ELSE ss[1] \o Concat(Tail(ss))

\* what pickle writes for an array, or for None
PickleArray(ar) ==
    IF ar = NoArray
    THEN [none |-> TRUE, shape |-> <<>>, buf |-> <<>>]
    ELSE [none |-> FALSE, shape |-> Shape(ar),
          buf |-> IF ar.ndim = 2 THEN ar.a ELSE Concat(ar.a)]

\* the array pickle rebuilds from a shape and a buffer
UnpickleArray(p) ==
    IF p.none THEN NoArray
    ELSE IF Len(p.shape) = 1 THEN [ndim |-> 2, a |-> p.buf]
    ELSE [ndim |-> 3,
          a |-> [l \in 1..p.shape[1] |->
                    [c \in 1..p.shape[2] |-> p.buf[(l - 1) * p.shape[2] + c]]]]

\* pickle.dump(self, f, protocol): the file's content
dump(self) ==
    LET state == getstate(self) IN
    [kind |-> "pickle",
     poly_idx |-> state.poly_idx,
     idx_ar |-> PickleArray(state.idx_ar),
     ar_count |-> PickleArray(state.ar_count)]

\* pickle.load(f): __setstate__ calls __init__(**state)
load(file) ==
    GridPolyConv(file.poly_idx, UnpickleArray(file.idx_ar), UnpickleArray(file.ar_count))

InitShares_NoCopy == {"idx_ar", "ar_count"}

\* the arrays of the object that share memory with the arrays passed to
\* __init__: none, idx_ar and ar_count are copies, weight and mask are new
InitShares == {}

(***************************************************************************)
(* GridPolyConv.from_grid_vector: keys, rasterization and levels.          *)
(* A grid is its shape <<nrow, ncol>>; a raster on the grid, or on the     *)
(* grid refined by a factor, is the sequence of its pixels in C order.  A  *)
(* geometry is the set of pixels of the raster whose centre it contains.   *)
(***************************************************************************)
OSError(msg) == [kind |-> "OSError", msg |-> msg]
PermissionError(msg) == [kind |-> "PermissionError", msg |-> msg]
PicklingError(msg) == [kind |-> "PicklingError", msg |-> msg]

NoVals_Never(vals) == FALSE

\* not vals
NoVals(vals) == vals = <<>>

\* the error raised when no feature was read
NoFeaturesError == ValueError("no features were found in grid extent")

\* the check of refine and max_levels: the message raised, or ""
ConfigCheck(refine, max_levels) ==
    IF refine < 1
    THEN "refine must be >= 1"
    ELSE IF refine > 1 /\ max_levels < 1
    THEN "max_levels must be >= 1"
    ELSE ""

Max(S) == CHOOSE x \in S : \A y \in S : y <= x

\* sorted(S)
RECURSIVE Sorted(_)
Sorted(S) ==
    IF S = {} THEN <<>>
    ELSE LET least == CHOOSE x \in S : \A y \in S : x <= y
         IN <<least>> \o Sorted(S \ {least})

vals_d_AsRead(vals) == vals

\* vals_d = dict(enumerate(sorted(set(vals)), 1)): the dict of keys 1..n as a sequence
vals_d(vals) == Sorted(Range(vals))

\* idx_vals = {v: k for k, v in vals_d.items()}: a later key replaces an earlier one
idx_vals(vals) ==
    LET d == vals_d(vals) IN
    [v \in Range(d) |-> Max({k \in DOMAIN d : d[k] = v})]

\* idxs = list(map(idx_vals.get, vals))
Idxs(vals) == [i \in DOMAIN vals |-> idx_vals(vals)[vals[i]]]

\* geoms_idxs = list(zip(geoms, idxs))
Zip(geoms, idxs) == [i \in DOMAIN geoms |-> <<geoms[i], idxs[i]>>]

\* features.rasterize(shapes, out_shape, fill, all_touched=False): every pixel
\* gets the value of the last shape that contains its centre, else fill
rasterize(shapes, npixel, fill) ==
    [p \in 1..npixel |->
        LET hits == {i \in DOMAIN shapes : p \in shapes[i][1]} IN
        IF hits = {} THEN fill ELSE shapes[Max(hits)][2]]

\* the number of pixels of the grid refined by a factor
NPixel(shape, refine) == shape[1] * refine * shape[2] * refine

\* cX, cY = fX // refine, fY // refine: the cell (in C order) of a fine pixel
CoarseOf(p, shape, refine) ==
    LET fX == (p - 1) \div (shape[2] * refine)
        fY == (p - 1) % (shape[2] * refine)
    IN (fX \div refine) * shape[2] + (fY \div refine) + 1

\* the fine pixels of a cell
Block(c, shape, refine) ==
    {p \in 1..NPixel(shape, refine) : CoarseOf(p, shape, refine) = c}

Modes_Present(src, block) ==
    IF {src[p] : p \in block} \ {0} = {} THEN {0} ELSE {src[p] : p \in block} \ {0}

\* the most frequent values of the pixels of a cell that are not nodata (0)
Modes(src, block) ==
    LET valid == {src[p] : p \in block} \ {0}
        Freq(v) == Cardinality({p \in block : src[p] = v})
    IN IF valid = {} THEN {0}
       ELSE {v \in valid : \A w \in valid : Freq(w) <= Freq(v)}

\* reproject(src, dst, resampling=Resampling.mode, src_nodata=0, dst_nodata=0):
\* the rasters it can leave in dst; which of several equally frequent values
\* it takes is left to the library
ReprojectMode(src, shape, refine) ==
    {dst \in [1..(shape[1] * shape[2]) -> 0..Max(Range(src) \cup {0})] :
        \A c \in DOMAIN dst : dst[c] \in Modes(src, Block(c, shape, refine))}

\* reproject(src, dst, resampling=Resampling.sum, src_nodata=0, dst_nodata=0)
\* of a raster of zeros and ones
ReprojectSum(src, shape, refine) ==
    [c \in 1..(shape[1] * shape[2]) |->
        Cardinality({p \in Block(c, shape, refine) : src[p] = 1})]

\* idx2d_fine = idx2d[cX, cY]
Fine(idx2d, shape, refine) ==
    [p \in 1..NPixel(shape, refine) |-> idx2d[CoarseOf(p, shape, refine)]]

Sel2d_WithNodata(idx_ar, idx2d_fine) ==
    [p \in DOMAIN idx_ar |-> IF idx_ar[p] = idx2d_fine[p] THEN 1 ELSE 0]

\* sel2d = logical_and(idx_ar == idx2d_fine, idx_ar != 0), as uint8
Sel2d(idx_ar, idx2d_fine) ==
    [p \in DOMAIN idx_ar |->
        IF idx_ar[p] = idx2d_fine[p] /\ idx_ar[p] # 0 THEN 1 ELSE 0]

Removed_None(idx_ar, idx2d_fine) == idx_ar

\* idx_ar[idx_ar == idx2d_fine] = 0
Removed(idx_ar, idx2d_fine) ==
    [p \in DOMAIN idx_ar |-> IF idx_ar[p] = idx2d_fine[p] THEN 0 ELSE idx_ar[p]]

\* idx_ar.any()
AnyLeft(idx_ar) == \E p \in DOMAIN idx_ar : idx_ar[p] # 0

\* cls(poly_idx, idx_ar, ar_count): with levels, the stacked 3D arrays
Built(poly_idx, idx_ar, idx_l, ar_count_l, use_refine) ==
    IF use_refine
    THEN GridPolyConv(poly_idx, [ndim |-> 3, a |-> idx_l], [ndim |-> 3, a |-> ar_count_l])
    ELSE GridPolyConv(poly_idx, [ndim |-> 2, a |-> idx_ar], NoArray)

(***************************************************************************)
(* Cache file names: generate_cached_fname and find_cache.  A name is      *)
(* "c", the first 8 hex digits of one or two md5 digests, ".gpc".  A       *)
(* digest stands for the message it hashes: equal messages give equal      *)
(* digests and different messages are taken to give different ones.        *)
(***************************************************************************)
\* str(grid): the representation of the grid's geometry
GridStr(grid) == [shape |-> grid]

\* md5(message).hexdigest()[:8]
Md5(message) == [md5 |-> message]

\* the shapes argument left at None, or a list of (geometry, key) pairs
NoShapes == [none |-> TRUE, list |-> <<>>]
Shapes(geoms_idxs) == [none |-> FALSE, list |-> geoms_idxs]

\* sorted(shapes, key=lambda item: item[1]): pairs of equal key stay in the
\* order they have in shapes
SortedByKey(shapes) ==
    Concat([k \in 1..Max({shapes[i][2] : i \in DOMAIN shapes} \cup {0}) |->
                SelectSeq(shapes, LAMBDA item : item[2] = k)])

\* generate_cached_fname(grid, vals_d, refine, shapes=None); the caller passes
\* poly_idx as vals_d
generate_cached_fname(grid, poly_idx, refine, shapes) ==
    [prefix |-> "c",
     pt1 |-> Md5(<<GridStr(grid), poly_idx, refine>>),
     pt2 |-> IF shapes.none THEN <<>> ELSE <<Md5(SortedByKey(shapes.list))>>,
     suffix |-> ".gpc"]

\* fname[:9]: "c" and the 8 digits of the first digest
Prefix9(fname) == <<fname.prefix, fname.pt1>>

find_cache_PrefixAlways(list_dir, fname, caching) ==
    IF list_dir = {} THEN {}
    ELSE IF fname \in list_dir THEN {fname}
    ELSE {f \in list_dir : Prefix9(f) = Prefix9(fname)}

find_cache_AnyMatch(list_dir, fname, caching) ==
    IF caching = 1
    THEN {f \in list_dir : Prefix9(f) = Prefix9(fname)}
    ELSE list_dir \cap {fname}

\* find_cache(dirname, fname) on a directory whose cache files (c*.gpc) are
\* list_dir: the names it can return, none for None.  The directory is
\* listed in no particular order, so any file of the prefix can come first.
find_cache(list_dir, fname, caching) ==
    IF list_dir = {} THEN {}
    ELSE IF fname \in list_dir THEN {fname}
    ELSE IF caching = 1
    THEN {f \in list_dir : Prefix9(f) = Prefix9(fname)}
    ELSE {}

(***************************************************************************)
(* State.                                                                  *)
(***************************************************************************)
VARIABLES
    obj,        \* the GridPolyConv object at hand, or None
    call,       \* the arguments of the last array_from_values call, or None
    ret,        \* what that call returned or raised, or None
    ret2,       \* what the same call returned when it was repeated, or None
    args,       \* the poly_idx and arrays the caller passed to __init__ and still holds
    shared,     \* the arrays of obj that share memory with those of args
    pickled,    \* the content of the file to_pickle wrote, or None
    loaded,     \* the object from_pickle returned, or None
    input,      \* the arguments of the from_grid_vector call and the source it reads
    fs,         \* GRID_CACHE_DIR and the cache files of the directories
    pc,         \* the position of from_grid_vector
    local,      \* the local variables of from_grid_vector
    trace       \* the file and rasterization operations from_grid_vector has done

vars == <<obj, call, ret, ret2, args, shared, pickled, loaded,
          input, fs, pc, local, trace>>
lifeVars == <<ret2, args, shared, pickled, loaded>>
buildVars == <<input, fs, pc, local, trace>>

(***************************************************************************)
(* Inputs: the mappings a caller can construct and the arguments of        *)
(* array_from_values.                                                      *)
(***************************************************************************)
SeqsUpTo(S, n) == UNION {[1..k -> S] : k \in 0..n}
NoDup(s) == Len(s) = Cardinality(Range(s))

\* poly_idx tuples a caller passes: empty, one key, two keys (not sorted;
\* from_grid_vector builds the sorted ones)
PolyIdxs == {<<>>, <<10>>, <<20, 10>>}

\* shapes (nlev, ncell) of 3D arrays with at most MaxSize elements
Shapes3D == {sh \in (1..MaxSize) \X (1..MaxSize) : sh[1] * sh[2] <= MaxSize}

\* integer arrays with entries in 0..hi
Arrays2D(hi) == {[ndim |-> 2, a |-> f] : f \in UNION {[1..k -> 0..hi] : k \in 1..MaxSize}}
Arrays3D(sh, hi) == {[ndim |-> 3, a |-> f] : f \in [1..sh[1] -> [1..sh[2] -> 0..hi]]}

\* the objects the constructor accepts; idx_ar holds 0..len(poly_idx) as documented
Mappings ==
    UNION {
        {GridPolyConv(p, i, NoArray) : i \in Arrays2D(Len(p))}
        \cup UNION {{GridPolyConv(p, i, c) :
                        i \in Arrays3D(sh, Len(p)), c \in Arrays3D(sh, MaxCount)} :
                    sh \in Shapes3D}
        : p \in PolyIdxs}

\* the caller's index lists: the keys of poly_idx in any order, with at most
\* one further or repeated key
IndexLists(self) == SeqsUpTo(AttrVals, Len(self.poly_idx) + 1)

Values1D(row) == [ndim |-> 1, rows |-> <<row>>]
\* a 2D values array of two rows: the second row is the first one negated
Values2D(row) == [ndim |-> 2, rows |-> <<row, [i \in DOMAIN row |-> 1 - row[i]]>>]
Zeros(n) == [i \in 1..n |-> 0]

\* calls that pass the key checks: any values of the right length
ArgsAligned(self) ==
    UNION {
        {[kind |-> "call", index |-> index, values |-> v, fill |-> fill,
          enforce1d |-> FALSE] :
            v \in UNION {{Values1D(row), Values2D(row)} :
                            row \in [1..Len(index) -> Vals]},
            fill \in Fills}
        : index \in {x \in IndexLists(self) : Range(self.poly_idx) \subseteq Range(x)}}

\* calls with zero-valued arrays of 0 to 3 dimensions, of the length of index
\* or one more, and any index no longer than poly_idx
ArgsShapes(self) ==
    UNION {
        {[kind |-> "call", index |-> index, values |-> v, fill |-> 0,
          enforce1d |-> e] :
            v \in {[ndim |-> 0, rows |-> << <<>> >>],
                   [ndim |-> 3, rows |-> << <<0>> >>]}
                  \cup UNION {{[ndim |-> 1, rows |-> <<Zeros(n)>>],
                               [ndim |-> 2, rows |-> <<Zeros(n), Zeros(n)>>]} :
                              n \in {Len(index), Len(index) + 1}},
            e \in BOOLEAN}
        : index \in SeqsUpTo(AttrVals, Len(self.poly_idx))}

Args(self) == ArgsAligned(self) \cup ArgsShapes(self)

(***************************************************************************)
(* Projection: one array_from_values call on a constructed mapping.        *)
(***************************************************************************)
InitProject ==
    /\ obj \in Mappings
    /\ call = None
    /\ ret = None
    /\ ret2 = None
    /\ args = None
    /\ shared = {}
    /\ pickled = None
    /\ loaded = None
    /\ input = None
    /\ fs = None
    /\ pc = "idle"
    /\ local = None
    /\ trace = <<>>

ArrayFromValues ==
    /\ obj.kind = "GridPolyConv"
    /\ call.kind = "None"
    /\ \E a \in Args(obj) :
        /\ call' = a
        /\ ret' = array_from_values(obj, a.index, a.values, a.fill, a.enforce1d)
    /\ UNCHANGED <<obj, lifeVars, buildVars>>

NextProject == ArrayFromValues

SpecProject == InitProject /\ [][NextProject]_vars

(***************************************************************************)
(* Life of an object: construction from the caller's arrays, calls,        *)
(* pickling and unpickling, while the caller goes on writing to the        *)
(* arrays it passed.                                                       *)
(***************************************************************************)
\* what a caller passes to __init__: a 2D idx_ar without or with a (then
\* ignored) ar_count, a 3D idx_ar with an ar_count of its shape or without
ConstructorArgs ==
    UNION {
        {[kind |-> "args", poly_idx |-> p, idx_ar |-> i, ar_count |-> c, writes |-> 0] :
            i \in Arrays2D(Len(p)), c \in {NoArray} \cup Arrays3D(<<1, 1>>, MaxCount)}
        \cup UNION {
            {[kind |-> "args", poly_idx |-> p, idx_ar |-> i, ar_count |-> c, writes |-> 0] :
                i \in Arrays3D(sh, Len(p)), c \in {NoArray} \cup Arrays3D(sh, MaxCount)}
            : sh \in Shapes3D}
        : p \in PolyIdxs}

\* the call in poly_idx order that gives the k-th polygon the value k
PlainCall(self) ==
    [kind |-> "call", index |-> self.poly_idx,
     values |-> Values1D([k \in 1..Len(self.poly_idx) |-> k]),
     fill |-> 0, enforce1d |-> FALSE]

InitLife ==
    /\ args \in ConstructorArgs
    /\ obj = None
    /\ call = None
    /\ ret = None
    /\ ret2 = None
    /\ shared = {}
    /\ pickled = None
    /\ loaded = None
    /\ input = None
    /\ fs = None
    /\ pc = "idle"
    /\ local = None
    /\ trace = <<>>

\* obj = GridPolyConv(poly_idx, idx_ar, ar_count)
Construct ==
    /\ obj.kind = "None"
    /\ obj' = GridPolyConv(args.poly_idx, args.idx_ar, args.ar_count)
    /\ shared' = InitShares
    /\ UNCHANGED <<call, ret, ret2, args, pickled, loaded, buildVars>>

\* one element of an array written in place
Written(ar, v) ==
    IF ar.ndim = 2
    THEN {[ar EXCEPT !.a[c] = v] : c \in DOMAIN ar.a}
    ELSE {[ar EXCEPT !.a[l][c] = v] : l \in DOMAIN ar.a, c \in DOMAIN ar.a[1]}

\* with memory shared, the write shows in the object too
Seen(self, field, ar) ==
    IF field \in shared /\ self.kind = "GridPolyConv"
    THEN IF field = "idx_ar" THEN [self EXCEPT !.idx_ar = ar]
         ELSE IF self.ar_count # NoArray THEN [self EXCEPT !.ar_count = ar]
         ELSE self
    ELSE self

\* the caller writes to an array it passed to __init__
CallerWrites ==
    /\ obj.kind # "None"
    /\ args.writes < MaxWrites
    /\ \/ \E v \in 0..Len(args.poly_idx) : \E ar \in Written(args.idx_ar, v) :
            /\ ar # args.idx_ar
            /\ args' = [args EXCEPT !.idx_ar = ar, !.writes = @ + 1]
            /\ obj' = Seen(obj, "idx_ar", ar)
       \/ /\ args.ar_count # NoArray
          /\ \E v \in 0..MaxCount : \E ar \in Written(args.ar_count, v) :
            /\ ar # args.ar_count
            /\ args' = [args EXCEPT !.ar_count = ar, !.writes = @ + 1]
            /\ obj' = Seen(obj, "ar_count", ar)
    /\ UNCHANGED <<call, ret, ret2, shared, pickled, loaded, buildVars>>

\* the first call of array_from_values
FirstCall ==
    /\ obj.kind = "GridPolyConv"
    /\ call.kind = "None"
    /\ call' = PlainCall(obj)
    /\ ret' = array_from_values(obj, call'.index, call'.values, call'.fill, call'.enforce1d)
    /\ UNCHANGED <<obj, ret2, args, shared, pickled, loaded, buildVars>>

\* the same call once more
SecondCall ==
    /\ obj.kind = "GridPolyConv"
    /\ call.kind = "call"
    /\ ret2.kind = "None"
    /\ ret2' = array_from_values(obj, call.index, call.values, call.fill, call.enforce1d)
    /\ UNCHANGED <<obj, call, ret, args, shared, pickled, loaded, buildVars>>

\* obj.to_pickle(path); the cache is stored by the same pickle.dump
ToPickle ==
    /\ obj.kind = "GridPolyConv"
    /\ pickled.kind = "None"
    /\ pickled' = dump(obj)
    /\ UNCHANGED <<obj, call, ret, ret2, args, shared, loaded, buildVars>>

\* GridPolyConv.from_pickle(path)
FromPickle ==
    /\ pickled.kind = "pickle"
    /\ loaded.kind = "None"
    /\ loaded' = load(pickled)
    /\ UNCHANGED <<obj, call, ret, ret2, args, shared, pickled, buildVars>>

NextLife ==
    \/ Construct
    \/ CallerWrites
    \/ FirstCall
    \/ SecondCall
    \/ ToPickle
    \/ FromPickle

SpecLife == InitLife /\ [][NextLife]_vars

(***************************************************************************)
(* Build: one from_grid_vector call, from its arguments, the features of   *)
(* the source and the cache files on disk, followed by one projection of   *)
(* the mapping it returned.                                                *)
(***************************************************************************)
\* the directories a cache file is looked for and written in
Dirs == {"GRID_CACHE_DIR", "parent", "."}

\* caching levels a caller passes: the three documented ones and another
Cachings == {0, 1, 2, 3}

\* a cache file pickle cannot load: truncated, or not a pickle at all
Corrupt == [kind |-> "corrupt"]

\* mappings an earlier run has stored: an unrefined and a refined one
CachedMappings ==
    {GridPolyConv(<<10>>, [ndim |-> 2, a |-> <<1>>], NoArray),
     GridPolyConv(<<10>>, [ndim |-> 3, a |-> << <<1>> >>], [ndim |-> 3, a |-> << <<1>> >>])}

\* what a cache file holds: something pickle cannot load, or a stored mapping
Contents == {Corrupt} \cup {dump(m) : m \in CachedMappings}

File(name, content) == [name |-> name, content |-> content]

\* the names of the files of a directory, and its file of a name
Names(dir) == {f.name : f \in dir}
FileNamed(dir, name) == CHOOSE f \in dir : f.name = name

\* a directory after a file was written: it replaces a file of its name
WithFile(dir, file) == {f \in dir : f.name # file.name} \cup {file}

NoFiles == [d \in Dirs |-> {}]

EmptyFileSystem ==
    [kind |-> "fs", env |-> "unset", files |-> NoFiles,
     writable |-> Dirs \ {"GRID_CACHE_DIR"}]

\* geometries on a raster of n pixels: the pixels up to one, or from one on
Geoms(n) == {1..b : b \in 0..n} \cup {a..n : a \in 1..n}

Feature(geometry, value, inextent) ==
    [geometry |-> geometry, value |-> value, inextent |-> inextent]

\* the attribute value of the i-th feature where the geometries vary
ValueAt == <<20, 10, 30>>

\* a call on the two-cell grid: features of any geometry, no caching
RasterInput ==
    \E refine \in 1..MaxRefine : \E k \in 0..MaxFeatures :
        \E g \in [1..k -> Geoms(NPixel(<<1, 2>>, refine))] :
            \E max_levels \in IF refine = 1 THEN {1} ELSE 1..MaxLevels :
                input = [kind |-> "input", grid |-> <<1, 2>>,
                         ds |-> [i \in 1..k |-> Feature(g[i], ValueAt[i], TRUE)],
                         refine |-> refine, max_levels |-> max_levels, caching |-> 0,
                         picklable |-> TRUE]

\* a call on the one-cell grid: one feature more, each of any attribute value,
\* that cover the grid or none of its pixel centres, without and with caching
KeyInput ==
    \E refine \in 1..MaxRefine : \E k \in 0..(MaxFeatures + 1) :
        \E ds \in [1..k -> {Feature(g, v, TRUE) :
                               g \in {{}, 1..NPixel(<<1, 1>>, refine)}, v \in AttrVals}] :
            \E caching \in {0, 1, 2} :
                input = [kind |-> "input", grid |-> <<1, 1>>, ds |-> ds,
                         refine |-> refine, max_levels |-> MaxLevels,
                         caching |-> caching, picklable |-> TRUE]

\* a call on the one-cell grid with any configuration: no feature, one outside
\* the grid's extent, one that covers the first pixel
ConfigInput ==
    \E ds \in {<<>>, <<Feature({1}, 10, FALSE)>>, <<Feature({1}, 10, TRUE)>>} :
        \E refine \in 0..MaxRefine, max_levels \in 0..MaxLevels, caching \in Cachings :
            input = [kind |-> "input", grid |-> <<1, 1>>, ds |-> ds, refine |-> refine,
                     max_levels |-> max_levels, caching |-> caching,
                     picklable |-> TRUE]

\* a call with caching on, one feature on the first pixel of the one-cell
\* grid, and a mapping that pickle can or cannot store
CacheInput ==
    \E caching \in {1, 2}, picklable \in BOOLEAN :
        input = [kind |-> "input", grid |-> <<1, 1>>, ds |-> <<Feature({1}, 10, TRUE)>>,
                 refine |-> MaxRefine, max_levels |-> MaxLevels,
                 caching |-> caching, picklable |-> picklable]

\* the values and geometries of the features a call reads: those in the
\* grid's bounds
ReadVals(in) ==
    LET feats == SelectSeq(in.ds, LAMBDA f : f.inextent)
    IN [i \in DOMAIN feats |-> feats[i].value]
ReadGeoms(in) ==
    LET feats == SelectSeq(in.ds, LAMBDA f : f.inextent)
    IN [i \in DOMAIN feats |-> feats[i].geometry]

\* the names generate_cached_fname gives a call at caching 1 and caching 2
StandardName(in) ==
    generate_cached_fname(in.grid, vals_d(ReadVals(in)), in.refine, NoShapes)
StrictName(in, geoms) ==
    generate_cached_fname(in.grid, vals_d(ReadVals(in)), in.refine,
                          Shapes(Zip(geoms, Idxs(ReadVals(in)))))

\* names of cache files on disk when a call starts: the two of the call, the
\* strict name of the same grid, keys and refine with other geometries, the
\* standard name of the same grid and refine with one more key
DiskNames(in) ==
    {StandardName(in),
     StrictName(in, ReadGeoms(in)),
     StrictName(in, [i \in DOMAIN ReadGeoms(in) |-> {}]),
     generate_cached_fname(in.grid, vals_d(ReadVals(in)) \o <<40>>, in.refine, NoShapes)}

\* directories of at most n cache files
Directories(in, n) ==
    {d \in SUBSET {File(name, content) : name \in DiskNames(in), content \in Contents} :
        Cardinality(d) <= n /\ Cardinality(Names(d)) = Cardinality(d)}

\* file systems of at most n cache files: with GRID_CACHE_DIR set only that
\* directory matters, without it the other two
FileSystems(in, n) ==
    {[kind |-> "fs", env |-> "notdir", files |-> NoFiles, writable |-> {}]}
    \cup {[kind |-> "fs", env |-> "dir",
           files |-> [NoFiles EXCEPT !["GRID_CACHE_DIR"] = d], writable |-> w] :
            d \in Directories(in, n), w \in SUBSET {"GRID_CACHE_DIR"}}
    \cup {[kind |-> "fs", env |-> "unset",
           files |-> [NoFiles EXCEPT !["parent"] = dd[1], !["."] = dd[2]], writable |-> w] :
            dd \in {x \in Directories(in, n) \X Directories(in, n) :
                        Cardinality(x[1]) + Cardinality(x[2]) <= n},
            w \in SUBSET {"parent", "."}}

NoLocals ==
    [kind |-> "locals", vals |-> <<>>, geoms |-> <<>>, poly_idx |-> <<>>,
     idxs |-> <<>>, cache_fname |-> None, cache_path |-> <<>>, rasterized |-> <<>>, idx_ar |-> <<>>,
     idx_l |-> <<>>, ar_count_l |-> <<>>, log |-> <<>>]

InitBuild ==
    /\ \/ RasterInput /\ fs = EmptyFileSystem
       \/ KeyInput /\ fs = EmptyFileSystem
       \/ ConfigInput /\ fs \in FileSystems(input, 1)
       \/ CacheInput /\ fs \in FileSystems(input, MaxFiles)
    /\ pc = "validate"
    /\ local = NoLocals
    /\ trace = <<>>
    /\ obj = None
    /\ call = None
    /\ ret = None
    /\ ret2 = None
    /\ args = None
    /\ shared = {}
    /\ pickled = None
    /\ loaded = None

Event(op, dir) == [op |-> op, dir |-> dir]

\* raise: the exception is what the call leaves
Raise(e) ==
    /\ obj' = e
    /\ pc' = "raised"

\* the checks of refine and max_levels
Validate ==
    /\ pc = "validate"
    /\ IF ConfigCheck(input.refine, input.max_levels) # ""
       THEN Raise(ValueError(ConfigCheck(input.refine, input.max_levels)))
       ELSE pc' = "read" /\ UNCHANGED obj
    /\ UNCHANGED <<call, ret, lifeVars, input, fs, local, trace>>

\* the features of the source in the grid's bounds, their geometries and values
ReadFeatures ==
    /\ pc = "read"
    /\ local' = [local EXCEPT !.geoms = ReadGeoms(input), !.vals = ReadVals(input)]
    /\ pc' = "check"
    /\ UNCHANGED <<obj, call, ret, lifeVars, input, fs, trace>>

\* if not vals: raise
CheckFeatures ==
    /\ pc = "check"
    /\ IF NoVals(local.vals)
       THEN Raise(NoFeaturesError)
       ELSE pc' = "keys" /\ UNCHANGED obj
    /\ UNCHANGED <<call, ret, lifeVars, input, fs, local, trace>>

\* the keys of the attribute values and of the features
AssignKeys ==
    /\ pc = "keys"
    /\ local' = [local EXCEPT !.poly_idx = vals_d(local.vals),
                              !.idxs = Idxs(local.vals)]
    /\ pc' = IF input.caching # 0 THEN "find" ELSE "rasterize"
    /\ UNCHANGED <<obj, call, ret, lifeVars, input, fs, trace>>

\* cache_fname = cls.generate_cached_fname(*args): with caching 2 the
\* geometries and their keys are hashed too
CacheFname ==
    generate_cached_fname(input.grid, local.poly_idx, input.refine,
                          IF input.caching = 2
                          THEN Shapes(Zip(local.geoms, local.idxs))
                          ELSE NoShapes)

\* the names find_cache can return for a directory
Lookup(dir, fname) == find_cache(Names(fs.files[dir]), fname, input.caching)

\* the directories find_cache is called on, in order: GRID_CACHE_DIR alone when
\* it is set, else the source's directory and, with nothing found there, "."
Searched(fname) ==
    IF fs.env = "dir" THEN <<"GRID_CACHE_DIR">>
    ELSE IF Lookup("parent", fname) # {} THEN <<"parent">>
    ELSE <<"parent", ".">>

\* the values cache_path can get, none for None
CachePaths(fname) ==
    LET last == Searched(fname)[Len(Searched(fname))]
    IN {<<last, name>> : name \in Lookup(last, fname)}

\* the cache file is looked for (with caching on)
FindCache ==
    /\ pc = "find"
    /\ IF input.caching \notin {1, 2}
       THEN /\ Raise(ValueError("caching must be 0, 1 or 2"))
            /\ UNCHANGED <<local, trace>>
       ELSE IF fs.env = "notdir"
       THEN /\ Raise(OSError("GRID_CACHE_DIR is not a directory"))
            /\ local' = [local EXCEPT !.cache_fname = CacheFname]
            /\ UNCHANGED trace
       ELSE /\ trace' = trace \o [i \in DOMAIN Searched(CacheFname) |->
                                    Event("lookup", Searched(CacheFname)[i])]
            /\ IF CachePaths(CacheFname) = {}
               THEN /\ local' = [local EXCEPT !.cache_fname = CacheFname]
                    /\ pc' = "rasterize"
               ELSE \E cache_path \in CachePaths(CacheFname) :
                    /\ local' = [local EXCEPT !.cache_fname = CacheFname,
                                              !.cache_path = cache_path]
                    /\ pc' = "readcache"
            /\ UNCHANGED obj
    /\ UNCHANGED <<call, ret, lifeVars, input, fs>>

ReadCache_ThenBuild ==
    /\ pc = "readcache"
    /\ trace' = Append(trace, Event("read", local.cache_path[1]))
    /\ pc' = "rasterize"
    /\ UNCHANGED <<obj, call, ret, lifeVars, input, fs, local>>

\* the cache file is read: its mapping is returned, or the file is removed,
\* which fails in a directory that cannot be written to
ReadCache ==
    /\ pc = "readcache"
    /\ LET dir == local.cache_path[1]
           file == FileNamed(fs.files[dir], local.cache_path[2])
       IN IF file.content.kind = "pickle" /\ load(file.content).kind = "GridPolyConv"
          THEN /\ obj' = load(file.content)
               /\ trace' = Append(trace, Event("read", dir))
               /\ pc' = "done"
               /\ UNCHANGED fs
          ELSE IF dir \in fs.writable
          THEN /\ trace' = trace \o <<Event("read", dir), Event("delete", dir)>>
               /\ fs' = [fs EXCEPT !.files[dir] = @ \ {file}]
               /\ pc' = "rasterize"
               /\ UNCHANGED obj
          ELSE /\ trace' = Append(trace, Event("read", dir))
               /\ Raise(PermissionError("os.remove"))
               /\ UNCHANGED fs
    /\ UNCHANGED <<call, ret, lifeVars, input, local>>

\* uaridx = np.unique(idx_ar); if nodata in uaridx: uaridx = np.delete(uaridx, nodata):
\* the sorted distinct values, without the element at index nodata when nodata occurs
uaridx(idx_ar, nodata) ==
    LET u == Sorted(Range(idx_ar)) IN
    IF nodata \in Range(u)
    THEN [i \in 1..(Len(u) - 1) |-> IF i < nodata + 1 THEN u[i] ELSE u[i + 1]]
    ELSE u

\* a record of the logger: its level and the start of its message
LogRecord(level, msg) == [level |-> level, msg |-> msg]

\* the messages logged after rasterization, chosen by comparing the set of
\* rasterized indexes with the set of polygon indexes
RasterLog(idx_ar, idxs, nodata) ==
    LET uaridx_s == Range(uaridx(idx_ar, nodata))
        idxs_s == Range(idxs)
    IN  IF uaridx_s = idxs_s
        THEN <<LogRecord("info", "all polygon indexes were rasterized")>>
        ELSE IF uaridx_s \subseteq idxs_s
        THEN <<LogRecord("info", "subset of polygon indexes were rasterized"),
               LogRecord("info", "missing idx")>>
        ELSE <<LogRecord("error", "none were rasterized")>>

\* the features are rasterized on the grid, refined when refine > 1
Rasterize ==
    /\ pc = "rasterize"
    /\ LET idx_ar == rasterize(Zip(local.geoms, local.idxs),
                               NPixel(input.grid, input.refine), 0)
       IN local' = [local EXCEPT !.rasterized = idx_ar, !.idx_ar = idx_ar,
                                 !.log = RasterLog(idx_ar, local.idxs, 0)]
    /\ trace' = Append(trace, Event("rasterize", ""))
    /\ pc' = IF input.refine > 1 THEN "level" ELSE "construct"
    /\ UNCHANGED <<obj, call, ret, lifeVars, input, fs>>

\* one pass of the loop over lev in range(max_levels)
Level ==
    /\ pc = "level"
    /\ \E idx2d \in ReprojectMode(local.idx_ar, input.grid, input.refine) :
        LET idx2d_fine == Fine(idx2d, input.grid, input.refine)
            count2d == ReprojectSum(Sel2d(local.idx_ar, idx2d_fine),
                                    input.grid, input.refine)
            left == Removed(local.idx_ar, idx2d_fine)
        IN /\ local' = [local EXCEPT !.idx_l = Append(@, idx2d),
                                     !.ar_count_l = Append(@, count2d),
                                     !.idx_ar = left]
           /\ pc' = IF ~AnyLeft(left) \/ Len(local.idx_l) + 1 = input.max_levels
                    THEN "construct" ELSE "level"
    /\ UNCHANGED <<obj, call, ret, lifeVars, input, fs, trace>>

\* obj = cls(poly_idx, idx_ar, ar_count, logger)
BuildObject ==
    /\ pc = "construct"
    /\ obj' = Built(local.poly_idx, local.idx_ar, local.idx_l, local.ar_count_l,
                    input.refine > 1)
    /\ pc' = IF obj'.kind # "GridPolyConv" THEN "raised"
             ELSE IF input.caching # 0 THEN "writecache" ELSE "done"
    /\ UNCHANGED <<call, ret, lifeVars, input, fs, local, trace>>

Tried_Both ==
    IF fs.env = "dir" THEN <<"GRID_CACHE_DIR">> ELSE <<"parent", ".">>

\* the directories write_cache is called on, in order: GRID_CACHE_DIR alone
\* when it is set, else the source's directory and, when the file cannot be
\* opened there, "."
Tried ==
    IF fs.env = "dir" THEN <<"GRID_CACHE_DIR">>
    ELSE IF "parent" \in fs.writable THEN <<"parent">>
    ELSE <<"parent", ".">>

\* the mapping is stored (with caching on) and returned; a PicklingError is
\* raised again, after open(cache_path, "wb") left an empty file
WriteCache ==
    /\ pc = "writecache"
    /\ trace' = trace \o [i \in DOMAIN Tried |-> Event("write", Tried[i])]
    /\ LET last == Tried[Len(Tried)] IN
       IF last \notin fs.writable
       THEN /\ pc' = "done"
            /\ UNCHANGED <<obj, fs>>
       ELSE IF input.picklable
       THEN /\ fs' = [fs EXCEPT !.files[last] =
                         WithFile(@, File(local.cache_fname, dump(obj)))]
            /\ pc' = "done"
            /\ UNCHANGED obj
       ELSE /\ fs' = [fs EXCEPT !.files[last] =
                         WithFile(@, File(local.cache_fname, Corrupt))]
            /\ Raise(PicklingError("pickle.dump"))
    /\ UNCHANGED <<call, ret, lifeVars, input, local>>

\* the caller projects values on the mapping it got: the k-th polygon has the
\* value k, with any fill
ProjectBuilt ==
    /\ pc = "done"
    /\ call.kind = "None"
    /\ \E fill \in Fills :
        /\ call' = [PlainCall(obj) EXCEPT !.fill = fill]
        /\ ret' = array_from_values(obj, call'.index, call'.values, fill, FALSE)
    /\ UNCHANGED <<obj, lifeVars, buildVars>>

NextBuild ==
    \/ Validate
    \/ ReadFeatures
    \/ CheckFeatures
    \/ AssignKeys
    \/ FindCache
    \/ ReadCache
    \/ Rasterize
    \/ Level
    \/ BuildObject
    \/ WriteCache
    \/ ProjectBuilt

SpecBuild == InitBuild /\ [][NextBuild]_vars

\* the call runs on: a pass of the loop that can be made is made
SpecBuildLive == SpecBuild /\ WF_vars(Level)

(***************************************************************************)
(* Properties of array_from_values, checked under SpecProject.             *)
(***************************************************************************)
Called == call.kind = "call"
Succeeded == Called /\ ret.kind = "array"
Refined(self) == self.weight # NoWeight

\* the value the caller supplied for a key: the entry of row at index.index(key)
Supplied(row, key) == row[ListIndex(call.index, key)]

\* C4: array_from_values raises ValueError, and returns no array, whenever
\* values has not 1 or 2 dimensions, or its last dimension differs in length
\* from index, or index is not a superset of poly_idx.  Of the calls that
\* reach the check of the keys, the one whose index shares no key with
\* poly_idx carries the 'disjoint' message and the one whose index shares
\* some but not all carries the 'not a superset' message.
C4_RejectsBadArguments ==
    Called =>
        LET v == call.values
            index == Range(call.index)
            poly == Range(obj.poly_idx)
            badDim == v.ndim \notin {1, 2}
            badLen == ~badDim /\ LastDim(v) # Len(call.index)
            reachesKeys == ~badDim /\ ~badLen /\ ~(call.enforce1d /\ v.ndim # 1)
        IN  /\ (badDim \/ badLen \/ ~(poly \subseteq index)) => ret.kind = "ValueError"
            /\ (reachesKeys /\ index \cap poly = {})
                    => ret = ValueError("index is disjoint from poly_idx")
            /\ (reachesKeys /\ index \cap poly # {} /\ ~(poly \subseteq index))
                    => ret = ValueError("index is not a superset of poly_idx")

\* a call whose index holds one of two keys of poly_idx was rejected
C4_Witness ==
    /\ Called
    /\ Len(obj.poly_idx) = 2
    /\ Range(call.index) \cap Range(obj.poly_idx) # {}
    /\ ret.kind = "ValueError"
    /\ ret.msg = "index is not a superset of poly_idx"

\* C5: on an unrefined (2D) mapping every row of values gives a 2D array
\* that holds, at a cell with idx_ar = k > 0, the value supplied for key
\* poly_idx[k-1], and fill at a cell with idx_ar = 0; the mask is true
\* exactly where idx_ar = 0; 1D values give a 2D array, 2D values a 3D one.
C5_UnrefinedProjection ==
    (Succeeded /\ ~Refined(obj)) =>
        /\ ret.ndim = call.values.ndim + 1
        /\ Len(ret.data) = Len(call.values.rows)
        /\ \A r \in DOMAIN ret.data : \A c \in Cells(obj.idx_ar) :
            LET k == obj.idx_ar.a[c] IN
            /\ k > 0 => ret.data[r][c] =
                            FromInt(Supplied(call.values.rows[r], obj.poly_idx[k]))
            /\ k = 0 => ret.data[r][c] = FromInt(call.fill)
            /\ ret.mask[c] <=> (k = 0)

\* 2D values in another order than poly_idx were spread over a 2D mapping
\* that has a covered and an uncovered cell, with a fill that is not 0
C5_Witness ==
    /\ Succeeded
    /\ ~Refined(obj)
    /\ call.values.ndim = 2
    /\ call.fill # 0
    /\ call.index # obj.poly_idx
    /\ \E c, d \in Cells(obj.idx_ar) :
        /\ obj.idx_ar.a[c] = 0 /\ ret.data[1][c] = FromInt(call.fill)
        /\ obj.idx_ar.a[d] = 2 /\ ret.data[1][d] # ret.data[2][d]

\* C6: on a refined (3D) mapping with fill = 0 the result at every cell is
\* the sum over the levels of weight times the value supplied for the
\* polygon poly_idx[idx_ar - 1] of that level, a level with idx_ar = 0
\* contributing 0.
C6_RefinedProjection ==
    (Succeeded /\ Refined(obj) /\ call.fill = 0) =>
        \A r \in DOMAIN ret.data : \A c \in Cells(obj.idx_ar) :
            ret.data[r][c] =
                RatSum([l \in 1..Len(obj.idx_ar.a) |->
                    LET k == obj.idx_ar.a[l][c] IN
                    IF k = 0 THEN <<0, 1>>
                    ELSE RatMul(obj.weight[l][c],
                                FromInt(Supplied(call.values.rows[r], obj.poly_idx[k])))])

\* a cell split in halves between two polygons got the mean of their values
C6_Witness ==
    /\ Succeeded
    /\ Refined(obj)
    /\ call.fill = 0
    /\ call.index # obj.poly_idx
    /\ \E c \in Cells(obj.idx_ar) :
        /\ Len(obj.idx_ar.a) = 2
        /\ obj.idx_ar.a[1][c] = 1 /\ obj.idx_ar.a[2][c] = 2
        /\ obj.weight[1][c] = <<1, 2>> /\ obj.weight[2][c] = <<1, 2>>
        /\ ret.data[1][c] = <<1, 2>>

\* the permutations of 1..n
Perms(n) == {f \in [1..n -> 1..n] : \A i, j \in 1..n : f[i] = f[j] => i = j}
Permuted(row, f) == [i \in DOMAIN row |-> row[f[i]]]
PermutedValues(values, f) ==
    [values EXCEPT !.rows = [r \in DOMAIN values.rows |-> Permuted(values.rows[r], f)]]

\* the ways to read, from index and values, one value per key of poly_idx
Selections(self, index) ==
    {sel \in [1..Len(self.poly_idx) -> 1..Len(index)] :
        \A k \in DOMAIN sel : index[sel[k]] = self.poly_idx[k]}
SelectedValues(values, sel) ==
    [values EXCEPT !.rows = [r \in DOMAIN values.rows |->
                                [k \in DOMAIN sel |-> values.rows[r][sel[k]]]]]

\* the call gives what every consistently permuted call gives, and what the
\* call with index = poly_idx and the values of those keys gives
ReorderingInvariant ==
    /\ \A f \in Perms(Len(call.index)) :
        array_from_values(obj, Permuted(call.index, f),
                          PermutedValues(call.values, f),
                          call.fill, call.enforce1d) = ret
    /\ \A sel \in Selections(obj, call.index) :
        array_from_values(obj, obj.poly_idx, SelectedValues(call.values, sel),
                          call.fill, call.enforce1d) = ret

AlignedCall ==
    /\ Called
    /\ call.values.ndim \in {1, 2}
    /\ LastDim(call.values) = Len(call.index)
    /\ Range(obj.poly_idx) \subseteq Range(call.index)

\* C7 as stated: for every index list that is a superset of poly_idx, the
\* call with index and values permuted alike returns the same array as the
\* call in poly_idx order.
C7_AsStated == AlignedCall => ReorderingInvariant

\* C7, amended: the same for every index list without a repeated key.
C7_ReorderingInvariance == (AlignedCall /\ NoDup(call.index)) => ReorderingInvariant

\* a refined mapping was given three distinct keys, the two of poly_idx in
\* another order and with unequal values, and spread them
C7_Witness ==
    /\ Succeeded
    /\ Refined(obj)
    /\ NoDup(call.index)
    /\ Len(call.index) = 3 /\ Len(obj.poly_idx) = 2
    /\ call.index[3] = obj.poly_idx[1]
    /\ call.index[1] = obj.poly_idx[2]
    /\ call.values.rows[1][1] # call.values.rows[1][3]
    /\ \E c \in Cells(obj.idx_ar) : ret.data[1][c] = <<1, 1>>

(***************************************************************************)
(* Properties of an object's life, checked under SpecLife.                 *)
(***************************************************************************)
\* C2: the object from_pickle returns has the poly_idx, idx_ar and ar_count
\* of the object to_pickle wrote (None stays None), 2D or 3D, and its weight
\* and mask are rebuilt to the same values.
C2_PickleRoundTrip ==
    loaded.kind # "None" =>
        /\ loaded.kind = "GridPolyConv"
        /\ loaded.poly_idx = obj.poly_idx
        /\ loaded.idx_ar = obj.idx_ar
        /\ loaded.ar_count = obj.ar_count
        /\ loaded.weight = obj.weight
        /\ loaded.mask = obj.mask

\* a 3D mapping of two levels with unequal index and count arrays came back
C2_Witness ==
    /\ loaded.kind = "GridPolyConv"
    /\ loaded.idx_ar.ndim = 3
    /\ Len(loaded.idx_ar.a) = 2
    /\ loaded.idx_ar.a[1] # loaded.idx_ar.a[2]
    /\ loaded.ar_count.a # loaded.idx_ar.a
    /\ loaded.weight[1][1] = <<1, 2>>
    /\ loaded.mask = <<FALSE>>

Returned == pc \in {"writecache", "done"} /\ obj.kind = "GridPolyConv"

\* it built the mapping by rasterization (it did not take it from a cache file)
Rasterized == Returned /\ local.rasterized # <<>>

\* weight.sum(0) at a cell
WeightSum(self, c) == RatSum([l \in 1..Len(self.weight) |-> self.weight[l][c]])

\* C1: in every refined mapping from_grid_vector returns, at every cell the
\* weights of the levels sum to a value in [0, 1], to 1 where the mask is
\* false, every weight is 0 where the counts total 0, and the counts total 0
\* exactly where the mask is true.
C1_WeightInvariant ==
    (Returned /\ Refined(obj)) =>
        \A c \in Cells(obj.idx_ar) :
            /\ RatLeq(<<0, 1>>, WeightSum(obj, c))
            /\ RatLeq(WeightSum(obj, c), <<1, 1>>)
            /\ ~obj.mask[c] => WeightSum(obj, c) = <<1, 1>>
            /\ Denominator(obj.ar_count)[c] = 0 =>
                \A l \in 1..Len(obj.weight) : obj.weight[l][c] = <<0, 1>>
            /\ Denominator(obj.ar_count)[c] = 0 <=> obj.mask[c]

\* a mapping built with two levels: a cell without polygon and a cell that two
\* polygons share
C1_Witness ==
    /\ Rasterized
    /\ Refined(obj)
    /\ Len(obj.weight) = 2
    /\ \E c \in Cells(obj.idx_ar) : obj.mask[c] /\ Denominator(obj.ar_count)[c] = 0
    /\ \E c \in Cells(obj.idx_ar) :
        /\ ~obj.mask[c]
        /\ obj.weight[1][c] = <<1, 2>>
        /\ obj.weight[2][c] = <<1, 2>>

\* the features read from the source
InExtent == SelectSeq(input.ds, LAMBDA f : f.inextent)

\* strictly ascending
Ascending(s) == \A i, j \in DOMAIN s : i < j => s[i] < s[j]

\* the features whose geometry contains the centre of a pixel
Hits(p) == {i \in DOMAIN local.geoms : p \in local.geoms[i]}

\* C9: once the keys are assigned, poly_idx is the distinct attribute values
\* in ascending order (so without duplicates and as long as there are
\* distinct values), the key of every feature is the 1-based position of its
\* attribute value in poly_idx, and every pixel of the rasterized array holds
\* the key of the attribute value of the feature burnt there.
C9_DenseSortedKeys ==
    (local.idxs # <<>>) =>
        /\ Ascending(local.poly_idx)
        /\ Range(local.poly_idx) = Range(local.vals)
        /\ Len(local.poly_idx) = Cardinality({f.value : f \in Range(InExtent)})
        /\ \A i \in DOMAIN local.vals :
            /\ local.idxs[i] \in DOMAIN local.poly_idx
            /\ local.poly_idx[local.idxs[i]] = local.vals[i]
        /\ \A p \in DOMAIN local.rasterized :
            IF Hits(p) = {} THEN local.rasterized[p] = 0
            ELSE /\ local.rasterized[p] \in DOMAIN local.poly_idx
                 /\ local.poly_idx[local.rasterized[p]] = local.vals[Max(Hits(p))]

\* three features read in the order 20, 10, 20 and rasterized
C9_Witness ==
    /\ pc = "done"
    /\ local.vals = <<20, 10, 20>>
    /\ local.poly_idx = <<10, 20>>
    /\ local.idxs = <<2, 1, 2>>
    /\ \E p \in DOMAIN local.rasterized : local.rasterized[p] # 0

\* C10: with a valid refine and max_levels and no feature left after reading,
\* the call is at the check or has raised ValueError("no features were found
\* in grid extent"), and no cache file was looked up, read, deleted or
\* written and nothing was rasterized, whatever the caching level.
C10_NoFeatures ==
    (/\ ConfigCheck(input.refine, input.max_levels) = ""
     /\ InExtent = <<>>
     /\ pc \notin {"validate", "read"}) =>
        /\ pc \in {"check", "raised"}
        /\ pc = "raised" => obj = ValueError("no features were found in grid extent")
        /\ trace = <<>>

\* strict caching, a stored mapping next to the source, one feature outside
\* the grid's extent: the call has raised
C10_Witness ==
    /\ pc = "raised"
    /\ obj = ValueError("no features were found in grid extent")
    /\ input.caching = 2
    /\ input.ds # <<>>
    /\ \E f \in fs.files["parent"] : f.content.kind = "pickle"
    /\ trace = <<>>

\* the fraction of the pixels of a cell that rasterize gave to a polygon
Coverage(c) ==
    Rat(Cardinality({p \in Block(c, input.grid, input.refine) : local.rasterized[p] # 0}),
        input.refine * input.refine)

\* a projection of a refined mapping that from_grid_vector built
ProjectedBuilt == Rasterized /\ Refined(obj) /\ Succeeded

\* the weighted sum of the call at a cell, before any outside term
PlainSum(c) == WeightedSum(obj, Insert0(call.values.rows[1], call.fill))[c]

\* C8: the claim as stated.  With fill = 0 a cell holds the weighted sum; with
\* fill # 0 a partly covered cell holds the weighted sum plus
\* (1 - coverage) * fill.
C8_AsStated ==
    ProjectedBuilt =>
        \A c \in Cells(obj.idx_ar) :
            /\ call.fill = 0 => ret.data[1][c] = PlainSum(c)
            /\ (/\ call.fill # 0
                /\ Coverage(c) # <<0, 1>>
                /\ Coverage(c) # <<1, 1>>) =>
                    ret.data[1][c] =
                        RatAdd(PlainSum(c),
                               RatMul(RatSub(<<1, 1>>, Coverage(c)), FromInt(call.fill)))

\* one polygon on half of the pixels of a cell, projected with fill 1
C8_Witness ==
    /\ ProjectedBuilt
    /\ call.fill = 1
    /\ \E c \in Cells(obj.idx_ar) :
        /\ Coverage(c) = <<1, 2>>
        /\ ret.data[1][c] = PlainSum(c)

(***************************************************************************)
(* Properties of the cache of from_grid_vector, checked under SpecBuild.   *)
(***************************************************************************)
\* the cache file name a call computes from what it reads
NameOf(in) ==
    IF in.caching = 2 THEN StrictName(in, ReadGeoms(in)) ELSE StandardName(in)

\* the call has computed its cache file name
Named == local.cache_fname # None

\* the same call on the source with its features in another order
Reordered_ds(in, f) == [in EXCEPT !.ds = Permuted(in.ds, f)]

\* C11: the claim as stated.  The name a call computes is the name of its
\* grid, keys, refine and (caching 2) geometries, and the call on the same
\* source with its features in any other order computes the same name.
C11_AsStated ==
    Named =>
        /\ local.cache_fname = NameOf(input)
        /\ \A f \in Perms(Len(input.ds)) :
            NameOf(Reordered_ds(input, f)) = local.cache_fname

\* a name computed with caching 2 from two features of one attribute value
\* and different geometries
C11_Witness ==
    /\ Named
    /\ input.caching = 2
    /\ \E i, j \in DOMAIN input.ds :
        /\ input.ds[i].value = input.ds[j].value
        /\ input.ds[i].geometry # input.ds[j].geometry

\* the lookup has just ended: no file was read, removed or written since
JustLooked ==
    /\ Named
    /\ trace # <<>>
    /\ trace[Len(trace)].op = "lookup"

\* the directories find_cache was called on
LookedIn == {trace[i].dir : i \in {j \in DOMAIN trace : trace[j].op = "lookup"}}

\* a strict-mode name: it has a second digest
IsStrict(name) == name.pt2 # <<>>

\* the strict-mode files of a directory that share the 9 characters of a name
StrictOfPrefix(dir, fname) ==
    {f \in fs.files[dir] : IsStrict(f.name) /\ Prefix9(f.name) = Prefix9(fname)}

\* C12: with caching 1, in a searched directory without the exact standard
\* name and with a strict-mode file of the same first 9 characters, the
\* lookup finds a strict-mode file of that prefix there; with caching 2 the
\* lookup finds nothing but a file of exactly the strict name.
C12_PrefixMatch ==
    JustLooked =>
        \A dir \in LookedIn :
            /\ (/\ input.caching = 1
                /\ local.cache_fname \notin Names(fs.files[dir])
                /\ StrictOfPrefix(dir, local.cache_fname) # {}) =>
                    /\ local.cache_path # <<>>
                    /\ local.cache_path[1] = dir
                    /\ FileNamed(fs.files[dir], local.cache_path[2])
                        \in StrictOfPrefix(dir, local.cache_fname)
            /\ input.caching = 2 =>
                /\ IsStrict(local.cache_fname)
                /\ local.cache_path # <<>> => local.cache_path[2] = local.cache_fname
                /\ local.cache_fname \notin Names(fs.files[dir]) =>
                    (local.cache_path = <<>> \/ local.cache_path[1] # dir)

\* caching 1 found the strict-mode file of the call's own geometries in a
\* directory that also holds a file of other keys
C12_Witness ==
    /\ JustLooked
    /\ input.caching = 1
    /\ local.cache_path # <<>>
    /\ local.cache_path[2] = StrictName(input, ReadGeoms(input))
    /\ Cardinality(fs.files[local.cache_path[1]]) = 2

\* the files of a directory the lookup of a name accepts: the file of that
\* name and, with caching 1, the files of its first 9 characters
Matches(dir, fname) ==
    {f \in fs.files[dir] :
        f.name = fname \/ (input.caching = 1 /\ Prefix9(f.name) = Prefix9(fname))}

\* the lookups done, in order
Lookups == SelectSeq(trace, LAMBDA e : e.op = "lookup")

\* C13: a GRID_CACHE_DIR that is not a directory raises OSError with nothing
\* looked up; a GRID_CACHE_DIR that is one is the only directory searched;
\* without it the source's directory is searched first and "." exactly when
\* nothing there matches; the file found is in the last directory searched,
\* and it is the file of the exact name when that directory holds one.
C13_LookupOrder ==
    /\ (Named /\ fs.env = "notdir") =>
        /\ pc = "raised"
        /\ obj = OSError("GRID_CACHE_DIR is not a directory")
        /\ trace = <<>>
    /\ JustLooked =>
        /\ fs.env = "dir" => Lookups = <<Event("lookup", "GRID_CACHE_DIR")>>
        /\ fs.env = "unset" =>
            IF Matches("parent", local.cache_fname) # {}
            THEN Lookups = <<Event("lookup", "parent")>>
            ELSE Lookups = <<Event("lookup", "parent"), Event("lookup", ".")>>
        /\ LET last == Lookups[Len(Lookups)].dir IN
            /\ local.cache_path # <<>> =>
                /\ local.cache_path[1] = last
                /\ FileNamed(fs.files[last], local.cache_path[2])
                    \in Matches(last, local.cache_fname)
            /\ local.cache_path = <<>> => Matches(last, local.cache_fname) = {}
            /\ local.cache_fname \in Names(fs.files[last]) =>
                local.cache_path = <<last, local.cache_fname>>

\* nothing next to the source; "." holds the file of the exact standard name
\* and a strict-mode file of its prefix, and the exact one is found
C13_Witness ==
    /\ JustLooked
    /\ fs.env = "unset"
    /\ input.caching = 1
    /\ Len(Lookups) = 2
    /\ local.cache_path = <<".", local.cache_fname>>
    /\ StrictOfPrefix(".", local.cache_fname) # {}

\* the positions of the events of an operation in the trace
EventsOf(op) == {i \in DOMAIN trace : trace[i].op = op}

\* from_grid_vector has returned the mapping of a cache file
FromCache == pc = "done" /\ local.rasterized = <<>>

\* a cache file was found and reading it failed
ReadFailed == EventsOf("read") # {} /\ ~FromCache

\* the mapping the call builds from what it rasterized
Fresh ==
    Built(local.poly_idx, local.idx_ar, local.idx_l, local.ar_count_l, input.refine > 1)

\* C14: the claim as stated, for a mapping pickle can store.  After a failed
\* read the file is deleted, nothing is raised, the mapping is rasterized and
\* the call returns the mapping it built.
C14_AsStated ==
    (ReadFailed /\ input.picklable) =>
        /\ \A i \in EventsOf("read") :
            /\ i + 1 \in DOMAIN trace
            /\ trace[i + 1] = Event("delete", trace[i].dir)
        /\ local.cache_path[2] \notin Names(fs.files[local.cache_path[1]])
            \/ EventsOf("write") # {}
        /\ pc \in {"rasterize", "level", "construct", "writecache", "done"}
        /\ pc = "done" => (EventsOf("rasterize") # {} /\ obj = Fresh)

\* a corrupt file was read and deleted, and the call returned the mapping it
\* built
C14_Witness ==
    /\ ReadFailed
    /\ EventsOf("delete") # {}
    /\ pc = "done"
    /\ obj = Fresh
    /\ obj.kind = "GridPolyConv"

\* the write_cache calls done, in order
Writes == SelectSeq(trace, LAMBDA e : e.op = "write")

\* write_cache was called
WroteCache == Writes # <<>>

\* the directory of the last write_cache call
LastWrite == Writes[Len(Writes)].dir

ReadOk ==
    /\ pc = "done"
    /\ EventsOf("read") # {}
    /\ EventsOf("delete") = {}

\* C16: with caching on, every rasterization comes after a cache lookup;
\* after a cache file was read without error the call returns the mapping of
\* that file and has neither rasterized nor written a cache file; every
\* cache write comes after a rasterization of the same call.
C16_CacheFlow ==
    /\ (input.caching # 0 /\ EventsOf("rasterize") # {}) =>
        /\ EventsOf("lookup") # {}
        /\ \A r \in EventsOf("rasterize") : \A l \in EventsOf("lookup") : l < r
    /\ ReadOk =>
        /\ obj = load(FileNamed(fs.files[local.cache_path[1]],
                                local.cache_path[2]).content)
        /\ EventsOf("rasterize") = {}
        /\ EventsOf("write") = {}
        /\ local.rasterized = <<>>
    /\ \A w \in EventsOf("write") :
        /\ \E r \in EventsOf("rasterize") : r < w
        /\ local.rasterized # <<>>

\* a cache file was found and read, and its mapping returned
C16_Witness ==
    /\ ReadOk
    /\ obj.kind = "GridPolyConv"
    /\ EventsOf("lookup") # {}
    /\ EventsOf("rasterize") = {}

\* a configuration the call is to reject: refine or max_levels below 1, a
\* caching that is none of 0, 1, 2, or (with caching on) a GRID_CACHE_DIR
\* that is not a directory
BadConfig ==
    \/ input.refine < 1
    \/ input.max_levels < 1
    \/ input.caching \notin {0, 1, 2}
    \/ input.caching # 0 /\ fs.env = "notdir"

\* the features of the source were read (seen when some are in the extent)
SourceRead == local.vals # <<>> \/ local.geoms # <<>>

\* C17: the claim as stated.  With a bad configuration the call never reads
\* the source, never looks up, reads, removes or writes a cache file, never
\* rasterizes and never returns a mapping.
C17_AsStated ==
    BadConfig =>
        /\ ~SourceRead
        /\ trace = <<>>
        /\ pc # "done"

\* a refine below 1 is rejected at once, with features in the extent unread
C17_Witness ==
    /\ input.refine < 1
    /\ ReadVals(input) # <<>>
    /\ pc = "raised"
    /\ obj = ValueError("refine must be >= 1")
    /\ ~SourceRead
    /\ trace = <<>>

(***************************************************************************)
(* GridPolyConv.array_from_netcdf and month_number.                        *)
(* The time_stats string is modelled by its parts: the sequence of what    *)
(* ":" separates, a window being the sequence of what "-" separates and    *)
(* the statistics the sequence of what "," separates; a statistic name is  *)
(* the sequence of its tokens (<<"min">>, <<"quantile(", "0.5", ")">>).    *)
(* The variable of the source is var[t][k], the value of polygon k at      *)
(* time step t (one row without a time dimension), already selected and    *)
(* ordered by poly_idx as var.sel does; time[t] is the year and month of   *)
(* step t.  A year label is <<y>> for a calendar year and <<y, y + 1>> for *)
(* a year that wraps; the bogus label is <<>>.                             *)
(***************************************************************************)
\* time steps of a source and statistics of a time_stats string
MaxSteps == 3
MaxStats == 2

month_abbr ==
    <<"Jan", "Feb", "Mar", "Apr", "May", "Jun",
      "Jul", "Aug", "Sep", "Oct", "Nov", "Dec">>
month_name ==
    <<"January", "February", "March", "April", "May", "June",
      "July", "August", "September", "October", "November", "December">>

\* month_number(txt) for a title-cased txt: 1..12, or 0 for the ValueError
month_number(txt) ==
    IF txt = "" THEN 0
    ELSE IF txt \in Range(month_abbr) THEN ListIndex(month_abbr, txt)
    ELSE IF txt \in Range(month_name) THEN ListIndex(month_name, txt)
    ELSE 0

\* what the parsing of time_stats leaves: the error raised ("" for none),
\* time_window (<<>> for None), time_stats_l, start_month and end_month
Parsed(error, time_window, time_stats_l, start_month, end_month) ==
    [error |-> error, time_window |-> time_window, time_stats_l |-> time_stats_l,
     start_month |-> start_month, end_month |-> end_month]

ParseTimeStats(time_stats) ==
    IF Len(time_stats) = 1
    THEN Parsed("", <<>>, time_stats[1], 1, 12)
    ELSE IF Len(time_stats) # 2
    THEN Parsed("expected one ':' in time stats", <<>>, <<>>, 1, 12)
    ELSE LET time_window == time_stats[1]
             time_stats_l == time_stats[2]
         IN IF time_window = <<"annual">>
            THEN Parsed("", time_window, time_stats_l, 1, 12)
            ELSE IF Len(time_window) > 1
            THEN IF Len(time_window) # 2
                 THEN Parsed("too many '-' for time_window", <<>>, <<>>, 1, 12)
                 ELSE IF month_number(time_window[1]) = 0
                         \/ month_number(time_window[2]) = 0
                 THEN Parsed("cannot evaluate month", <<>>, <<>>, 1, 12)
                 ELSE Parsed("", time_window, time_stats_l,
                             month_number(time_window[1]),
                             month_number(time_window[2]))
            ELSE Parsed("time stats window not supported", <<>>, <<>>, 1, 12)

MonthSelected_Either(month, start_month, end_month) ==
    LET num_months == end_month - start_month + 1 IN
    num_months % 12 = 0 \/ month >= start_month \/ month <= end_month

\* month_sel at one time step
MonthSelected(month, start_month, end_month) ==
    LET num_months == end_month - start_month + 1 IN
    IF num_months % 12 = 0 THEN TRUE
    ELSE IF num_months < 1
    THEN month >= start_month \/ month <= end_month
    ELSE month >= start_month /\ month <= end_month

month_sel(time, start_month, end_month) ==
    [t \in DOMAIN time |-> MonthSelected(time[t].month, start_month, end_month)]

\* has_partial_month_sel = not month_sel.all()
has_partial_month_sel(sel) == \E t \in DOMAIN sel : ~sel[t]

bogus == <<>>

\* the year label of every time step
year(time, start_month, sel, wraps) ==
    [t \in DOMAIN time |->
        IF ~sel[t] THEN bogus
        ELSE IF wraps
        THEN LET y == IF time[t].month < start_month
                      THEN time[t].year - 1 ELSE time[t].year
             IN <<y, y + 1>>
        ELSE <<time[t].year>>]

\* the labels groupby makes groups of, in its (sorted) order, bogus dropped
Labels(years) ==
    LET L == Range(years) \ {bogus}
        firsts == Sorted({l[1] : l \in L})
    IN [i \in DOMAIN firsts |-> CHOOSE l \in L : l[1] = firsts[i]]

\* the time steps of a label
StepsOf(years, label) == {t \in DOMAIN years : years[t] = label}

\* the mean of a non-empty sequence of rationals
Mean(s) == RatMul(RatSum(s), <<1, Len(s)>>)

\* rows.groupby(year).mean(): per label and polygon, the mean over the steps
GroupMean(rows, years, labels) ==
    [i \in DOMAIN labels |->
        LET steps == Sorted(StepsOf(years, labels[i])) IN
        [k \in DOMAIN rows[1] |->
            Mean([j \in DOMAIN steps |-> rows[steps[j]][k]])]]

\* self.weight.sum((1, 2)): the sum of the weight over the cells of a level
LevelSum(self) ==
    [l \in DOMAIN self.weight |->
        RatSum([c \in Cells(self.idx_ar) |-> self.weight[l][c]])]

\* weight * var is an error unless numpy can broadcast the (nlev,) weight
\* over the last dimension of var
Broadcasts(self) ==
    \/ self.weight = NoWeight
    \/ Len(self.weight) = 1
    \/ Len(self.weight) = Len(self.poly_idx)

BroadcastError == ValueError("operands could not be broadcast together")

\* weight * var
wvar(self, var) ==
    [t \in DOMAIN var |->
        [k \in DOMAIN var[t] |->
            IF self.weight = NoWeight THEN var[t][k]
            ELSE RatMul(LevelSum(self)[IF Len(self.weight) = 1 THEN 1 ELSE k],
                        var[t][k])]]

\* wvar_mean.sum(idx_name): the total of every year
wvar_year_total(self, var, years, labels) ==
    LET wvar_mean == GroupMean(wvar(self, var), years, labels)
    IN [i \in DOMAIN labels |-> RatSum(wvar_mean[i])]

RatLess(x, y) == ~RatLeq(y, x)

\* argmin, argmax: the first position of the least, of the greatest
ArgMin(s) ==
    CHOOSE i \in DOMAIN s :
        /\ \A j \in DOMAIN s : RatLeq(s[i], s[j])
        /\ \A j \in 1..(i - 1) : RatLess(s[i], s[j])
ArgMax(s) ==
    CHOOSE i \in DOMAIN s :
        /\ \A j \in DOMAIN s : RatLeq(s[j], s[i])
        /\ \A j \in 1..(i - 1) : RatLess(s[j], s[i])

\* argsort()[r] (r counted from 0): equal elements keep their order, as
\* numpy's sort of a short array does
ArgSortAt(s, r) ==
    CHOOSE i \in DOMAIN s :
        Cardinality({j \in DOMAIN s :
            RatLess(s[j], s[i]) \/ (s[j] = s[i] /\ j < i)}) = r

\* the rationals of a sequence in ascending order
RECURSIVE SortRats(_)
SortRats(s) ==
    IF s = <<>> THEN <<>>
    ELSE LET i == ArgMin(s)
         IN <<s[i]>> \o SortRats(SubSeq(s, 1, i - 1) \o SubSeq(s, i + 1, Len(s)))

\* numpy.quantile(s, q) with linear interpolation, q = <<a, b>> in [0, 1]
Quantile(s, q) ==
    LET sorted == SortRats(s)
        num == (Len(s) - 1) * q[1]
        lo == num \div q[2]
        frac == Rat(num % q[2], q[2])
    IN IF frac = <<0, 1>> THEN sorted[lo + 1]
       ELSE RatAdd(sorted[lo + 1],
                   RatMul(frac, RatSub(sorted[lo + 2], sorted[lo + 1])))

\* a column of the rows: the values of polygon k over the steps
Column(rows, k) == [t \in DOMAIN rows |-> rows[t][k]]

\* var.mean("time"), var.median("time"), var.min("time"), var.max("time")
\* and var.quantile(q, "time") of the rows, per polygon
TimeMean(rows) == [k \in DOMAIN rows[1] |-> Mean(Column(rows, k))]
TimeMedian(rows) == [k \in DOMAIN rows[1] |-> Quantile(Column(rows, k), <<1, 2>>)]
TimeMin(rows) == [k \in DOMAIN rows[1] |-> SortRats(Column(rows, k))[1]]
TimeMax(rows) == [k \in DOMAIN rows[1] |-> SortRats(Column(rows, k))[Len(rows)]]
TimeQuantile(rows, q) == [k \in DOMAIN rows[1] |-> Quantile(Column(rows, k), q)]

\* the texts of the character class [\d\.eE]+ among the arguments used, and
\* float() of them
NumberTexts == {"0.5"}
FloatOf(txt) == IF txt = "0.5" THEN <<1, 2>> ELSE <<0, 1>>

\* tstats.startswith("quantile(")
StartsWithQuantile(tstats) == tstats[1] = "quantile("

\* re.findall(r"quantile\(([\d\.eE]+)\)", tstats): the arguments found
FindQuantile(tstats) ==
    LET at == {i \in 1..(Len(tstats) - 2) :
                  /\ tstats[i] = "quantile("
                  /\ tstats[i + 1] \in NumberTexts
                  /\ tstats[i + 2] = ")"}
        found == Sorted(at)
    IN [j \in DOMAIN found |-> tstats[found[j] + 1]]

WindowGiven_Partial(time_window, partial) == partial

\* "if time_window:" a window was named before the ":"
WindowGiven(time_window, partial) == time_window # <<>>

\* year totals are only needed for min, max, median
NeedsYears(time_stats_l, time_window, partial) ==
    /\ Range(time_stats_l) \cap {<<"min">>, <<"max">>, <<"median">>} # {}
    /\ WindowGiven(time_window, partial)

\* the values of one statistic, or the error its name raises; rows are the
\* selected time steps, var_mean and totals the year means and year totals
StatValues(tstats, time_window, partial, rows, var_mean, totals) ==
    IF tstats = <<"mean">>
    THEN [error |-> "", values |-> TimeMean(rows)]
    ELSE IF tstats = <<"median">>
    THEN [error |-> "",
          values |-> IF WindowGiven(time_window, partial)
                     THEN var_mean[ArgSortAt(totals, Len(totals) \div 2)]
                     ELSE TimeMedian(rows)]
    ELSE IF tstats = <<"min">>
    THEN [error |-> "",
          values |-> IF WindowGiven(time_window, partial)
                     THEN var_mean[ArgMin(totals)]
                     ELSE TimeMin(rows)]
    ELSE IF tstats = <<"max">>
    THEN [error |-> "",
          values |-> IF WindowGiven(time_window, partial)
                     THEN var_mean[ArgMax(totals)]
                     ELSE TimeMax(rows)]
    ELSE IF StartsWithQuantile(tstats)
    THEN IF FindQuantile(tstats) = <<>>
         THEN [error |-> "error reading", values |-> <<>>]
         ELSE [error |-> "",
               values |-> TimeQuantile(rows, FloatOf(FindQuantile(tstats)[1]))]
    ELSE [error |-> "unhandled time stats", values |-> <<>>]

\* array_from_values(idx, values, fill=fill) for the 1D values of the
\* polygons in the order of poly_idx: the values spread over the grid
SpreadValues(self, values, fill) ==
    LET vals == <<FromInt(fill)>> \o values
        ar == IF self.weight = NoWeight
              THEN [c \in Cells(self.idx_ar) |-> vals[self.idx_ar.a[c] + 1]]
              ELSE [c \in Cells(self.idx_ar) |->
                      RatSum([l \in DOMAIN self.idx_ar.a |->
                          RatMul(vals[self.idx_ar.a[l][c] + 1], self.weight[l][c])])]
    IN [kind |-> "array", ndim |-> 2,
        data |-> <<AddOutside(self, ar, fill)>>, mask |-> self.mask]

\* ret[key] = ar
SetItem(d, key, values, ar) ==
    LET item == [key |-> key, values |-> values, ar |-> ar] IN
    IF \E i \in DOMAIN d.items : d.items[i].key = key
    THEN [d EXCEPT !.items = [i \in DOMAIN d.items |->
                                 IF d.items[i].key = key THEN item ELSE d.items[i]]]
    ELSE [d EXCEPT !.items = Append(@, item)]

EmptyDict == [kind |-> "dict", items |-> <<>>]

(***************************************************************************)
(* A call of array_from_netcdf, step by step: the parsing of time_stats,   *)
(* the opening and loading of the source, the year totals, one step per    *)
(* statistic of the list.  The mapping is obj, the arguments and the       *)
(* source are input, the result (or the exception) is ret.                 *)
(***************************************************************************)
\* the mappings of the calls: two polygons unrefined; two polygons of one
\* level; two polygons of two levels; three polygons of two levels
NcMappings ==
    {GridPolyConv(<<10, 20>>, [ndim |-> 2, a |-> <<1, 2, 2>>], NoArray),
     GridPolyConv(<<10, 20>>, [ndim |-> 3, a |-> <<<<1, 2, 2>>>>],
                  [ndim |-> 3, a |-> <<<<1, 1, 1>>>>]),
     GridPolyConv(<<10, 20>>, [ndim |-> 3, a |-> <<<<1, 2>>, <<2, 0>>>>],
                  [ndim |-> 3, a |-> <<<<3, 4>>, <<1, 0>>>>]),
     GridPolyConv(<<10, 20, 30>>, [ndim |-> 3, a |-> <<<<1, 2>>, <<3, 0>>>>],
                  [ndim |-> 3, a |-> <<<<3, 4>>, <<1, 0>>>>])}

\* the names of statistics the calls use
StatNames ==
    {<<"mean">>, <<"median">>, <<"min">>, <<"max">>, <<"foo">>,
     <<"quantile(", "0.5", ")">>, <<"quantile(", "abc", ")">>,
     <<"quantile(", "0.5", ")", "x">>}

\* the time stamps of the sources: June and July of two years
Stamps ==
    <<[year |-> 2000, month |-> 6], [year |-> 2000, month |-> 7],
      [year |-> 2001, month |-> 6], [year |-> 2001, month |-> 7]>>

\* the time axes: up to MaxSteps of the stamps, in order
TimeAxes ==
    {[i \in DOMAIN Sorted(S) |-> Stamps[Sorted(S)[i]]] :
        S \in {T \in SUBSET DOMAIN Stamps : T # {} /\ Cardinality(T) <= MaxSteps}}

\* the windows of the calls: none, the full year three ways, the first half
\* of the year, July to January
Windows ==
    {<<>>, <<"annual">>, <<"Jan", "Dec">>, <<"Jul", "Jun">>, <<"Jan", "Jun">>,
     <<"Jul", "Jan">>}

\* the time_stats string of a window and a list of statistics
TimeStats(window, stats) == IF window = <<>> THEN <<stats>> ELSE <<window, stats>>

NcInput(time_stats, has_time, time, var, fill) ==
    [kind |-> "netcdf", time_stats |-> time_stats, has_time |-> has_time,
     time |-> time, var |-> var, fill |-> fill]

\* calls that differ in the statistics: any list of up to MaxStats names,
\* alone or behind "annual:", on a source of two steps or without time
StatInput ==
    /\ obj = GridPolyConv(<<10, 20>>, [ndim |-> 2, a |-> <<1, 2, 2>>], NoArray)
    /\ \E n \in 1..MaxStats, window \in {<<>>, <<"annual">>}, fill \in Fills :
        \E stats \in [1..n -> StatNames] :
            \/ input = NcInput(TimeStats(window, stats), TRUE,
                               <<Stamps[1], Stamps[2]>>, <<<<0, 1>>, <<1, 1>>>>, fill)
            \/ input = NcInput(TimeStats(window, stats), FALSE, <<>>, <<<<0, 1>>>>, fill)

\* calls that differ in the window: a time_stats string that is not of the
\* form [window:]statistics
WindowInput ==
    /\ obj = GridPolyConv(<<10, 20>>, [ndim |-> 2, a |-> <<1, 2, 2>>], NoArray)
    /\ \E time_stats \in {<<<<"annual">>, <<<<"min">>>>, <<<<"max">>>>>>,
                          <<<<"Jan", "Mar", "Jun">>, <<<<"min">>>>>>,
                          <<<<"week">>, <<<<"min">>>>>>,
                          <<<<"Jan", "Juno">>, <<<<"min">>>>>>,
                          <<<<"July", "June">>, <<<<"min">>>>>>} :
        input = NcInput(time_stats, TRUE, <<Stamps[1], Stamps[2]>>,
                        <<<<0, 1>>, <<1, 1>>>>, 0)

\* calls that differ in the series: min, max or median with any window, on
\* any mapping, time axis and values, some time step being in the window
SeriesInput ==
    /\ obj \in NcMappings
    /\ \E window \in Windows, name \in {<<"min">>, <<"max">>, <<"median">>} :
        \E time \in TimeAxes :
            \E var \in [DOMAIN time -> [DOMAIN obj.poly_idx -> Vals]] :
                /\ \E t \in DOMAIN time :
                    MonthSelected(time[t].month,
                        ParseTimeStats(TimeStats(window, <<name>>)).start_month,
                        ParseTimeStats(TimeStats(window, <<name>>)).end_month)
                /\ input = NcInput(TimeStats(window, <<name>>), TRUE, time, var, 0)

\* the time axis of one year: a step in every month
YearAxis == [m \in 1..12 |-> [year |-> 2000, month |-> m]]

\* calls that differ in the months of the window: any start and end month,
\* by abbreviation or by name, with the mean of a source of one year whose
\* first polygon has the number of the month as its value
MonthInput ==
    /\ obj = GridPolyConv(<<10, 20>>, [ndim |-> 2, a |-> <<1, 2, 2>>], NoArray)
    /\ \E s \in 1..12, e \in 1..12, names \in {month_abbr, month_name} :
        input = NcInput(<<<<names[s], names[e]>>, <<<<"mean">>>>>>, TRUE, YearAxis,
                        [m \in 1..12 |-> <<m, 0>>], 0)

NoNcLocals ==
    [kind |-> "locals", time_window |-> <<>>, time_stats_l |-> <<>>,
     start_month |-> 1, end_month |-> 12, var |-> <<>>, month_sel |-> <<>>,
     partial |-> FALSE,
     var_mean |-> <<>>, totals |-> <<>>, labels |-> <<>>, done |-> 0]

InitNetcdf ==
    /\ \/ StatInput
       \/ WindowInput
       \/ SeriesInput
       \/ MonthInput
    /\ pc = "parse"
    /\ local = NoNcLocals
    /\ trace = <<>>
    /\ call = None
    /\ ret = None
    /\ ret2 = None
    /\ args = None
    /\ shared = {}
    /\ pickled = None
    /\ loaded = None
    /\ fs = None

\* raise: the call returns nothing, the exception is what it leaves
RaiseNc(e) ==
    /\ ret' = e
    /\ pc' = "raised"

\* the parsing of time_stats
ParseStats ==
    /\ pc = "parse"
    /\ LET p == ParseTimeStats(input.time_stats) IN
       IF p.error # ""
       THEN RaiseNc(ValueError(p.error)) /\ UNCHANGED local
       ELSE /\ local' = [local EXCEPT !.time_window = p.time_window,
                                      !.time_stats_l = p.time_stats_l,
                                      !.start_month = p.start_month,
                                      !.end_month = p.end_month]
            /\ pc' = "open"
            /\ UNCHANGED ret
    /\ UNCHANGED <<obj, call, lifeVars, input, fs, trace>>

\* the source is opened and the values of the polygons are loaded
OpenDataset ==
    /\ pc = "open"
    /\ local' = [local EXCEPT !.var =
                    [t \in DOMAIN input.var |->
                        [k \in DOMAIN input.var[t] |-> FromInt(input.var[t][k])]]]
    /\ trace' = Append(trace, Event("load", ""))
    /\ ret' = EmptyDict
    /\ pc' = IF input.has_time THEN "years" ELSE "plain"
    /\ UNCHANGED <<obj, call, lifeVars, input, fs>>

\* the month selection and, for min, max or median with a window, the year
\* means and the year totals; then only the selected steps are kept
YearTotals ==
    /\ pc = "years"
    /\ LET sel == month_sel(input.time, local.start_month, local.end_month)
           partial == has_partial_month_sel(sel)
           years == year(input.time, local.start_month, sel,
                         local.start_month > local.end_month)
           labels == Labels(years)
           kept == SelectSeq([t \in DOMAIN sel |-> t], LAMBDA t : sel[t])
           rows == [j \in DOMAIN kept |-> local.var[kept[j]]]
       IN IF NeedsYears(local.time_stats_l, local.time_window, partial)
          THEN IF Broadcasts(obj)
               THEN /\ local' = [local EXCEPT
                            !.month_sel = sel,
                            !.partial = partial,
                            !.labels = labels,
                            !.var_mean = GroupMean(local.var, years, labels),
                            !.totals = wvar_year_total(obj, local.var, years, labels),
                            !.var = rows]
                    /\ pc' = "stats"
                    /\ UNCHANGED ret
               ELSE RaiseNc(BroadcastError) /\ UNCHANGED local
          ELSE /\ local' = [local EXCEPT !.month_sel = sel, !.partial = partial,
                                         !.var = rows]
               /\ pc' = "stats"
               /\ UNCHANGED ret
    /\ UNCHANGED <<obj, call, lifeVars, input, fs, trace>>

\* one pass of the loop over time_stats_l: the statistic is evaluated and
\* its values are projected, or its name raises
Statistic ==
    /\ pc = "stats"
    /\ LET tstats == local.time_stats_l[local.done + 1]
           v == StatValues(tstats, local.time_window, local.partial, local.var,
                           local.var_mean, local.totals)
       IN IF v.error # ""
          THEN /\ RaiseNc(ValueError(v.error))
               /\ UNCHANGED <<local, trace>>
          ELSE /\ ret' = SetItem(ret, tstats, v.values,
                                 SpreadValues(obj, v.values, input.fill))
               /\ trace' = Append(trace, Event("project", ""))
               /\ local' = [local EXCEPT !.done = @ + 1]
               /\ pc' = IF local.done + 1 = Len(local.time_stats_l)
                        THEN "done" ELSE "stats"
    /\ UNCHANGED <<obj, call, lifeVars, input, fs>>

\* without a time dimension the values are projected as they are, under the
\* key None
NoTimeStats ==
    /\ pc = "plain"
    /\ ret' = SetItem(ret, <<>>, local.var[1],
                      SpreadValues(obj, local.var[1], input.fill))
    /\ trace' = Append(trace, Event("project", ""))
    /\ pc' = "done"
    /\ UNCHANGED <<obj, call, lifeVars, input, fs, local>>

NextNetcdf ==
    \/ ParseStats
    \/ OpenDataset
    \/ YearTotals
    \/ Statistic
    \/ NoTimeStats

SpecNetcdf == InitNetcdf /\ [][NextNetcdf]_vars


(***************************************************************************)
(* Properties of array_from_netcdf, checked under SpecNetcdf.              *)
(***************************************************************************)
\* the call has returned its dict
NcReturned == pc = "done" /\ ret.kind = "dict"

\* the values returned under a statistic's name
ItemsOf(key) == {ret.items[i] : i \in {j \in DOMAIN ret.items : ret.items[j].key = key}}

\* the window of the call's time_stats (<<>> for a bare list of statistics)
WindowOf(in) == IF Len(in.time_stats) = 2 THEN in.time_stats[1] ELSE <<>>

\* the window covers the full year: no window, "annual", or a month range
\* of 12 months
FullYear(in) ==
    LET p == ParseTimeStats(in.time_stats) IN
    p.error = "" /\ (p.end_month - p.start_month + 1) % 12 = 0

\* every time step of the source, as loaded
AllRows(in) ==
    [t \in DOMAIN in.var |-> [k \in DOMAIN in.var[t] |-> FromInt(in.var[t][k])]]

\* the plain per-polygon statistic over rows
Plain(key, rows) ==
    IF key = <<"min">> THEN TimeMin(rows)
    ELSE IF key = <<"max">> THEN TimeMax(rows)
    ELSE TimeMedian(rows)

RankedKeys == {<<"min">>, <<"max">>, <<"median">>}

\* C18: the claim as stated.  With a window that covers the full year the
\* values returned for min, max and median are the plain per-polygon
\* minimum, maximum and median over the time steps.
C18_AsStated ==
    (NcReturned /\ input.has_time /\ FullYear(input)) =>
        \A key \in RankedKeys : \A item \in ItemsOf(key) :
            item.values = Plain(key, AllRows(input))

\* the values are the year means of a year whose total is the one the
\* statistic asks for
OfRankedYear(key, values) ==
    \E i \in DOMAIN local.totals :
        /\ values = local.var_mean[i]
        /\ key = <<"min">> => \A j \in DOMAIN local.totals :
                                  RatLeq(local.totals[i], local.totals[j])
        /\ key = <<"max">> => \A j \in DOMAIN local.totals :
                                  RatLeq(local.totals[j], local.totals[i])
        /\ key = <<"median">> =>
            /\ Cardinality({j \in DOMAIN local.totals :
                   RatLess(local.totals[j], local.totals[i])})
                   <= Len(local.totals) \div 2
            /\ Cardinality({j \in DOMAIN local.totals :
                   RatLeq(local.totals[j], local.totals[i])})
                   > Len(local.totals) \div 2

\* C18 (amended): min, max and median are the plain per-polygon minimum,
\* maximum and median over the time steps when time_stats is a bare list of
\* statistics; with any window, "annual" and a 12-month range included, they
\* are the year means of the year the totals rank lowest, highest or middle,
\* every time step of a full-year window belonging to one of the years.
C18_PlainWithoutWindow ==
    (NcReturned /\ input.has_time) =>
        \A key \in RankedKeys : \A item \in ItemsOf(key) :
            IF WindowOf(input) = <<>>
            THEN item.values = Plain(key, AllRows(input))
            ELSE /\ OfRankedYear(key, item.values)
                 /\ FullYear(input) =>
                        /\ local.var = AllRows(input)
                        /\ Len(local.labels) =
                            Cardinality({IF ParseTimeStats(input.time_stats).start_month >
                                            ParseTimeStats(input.time_stats).end_month
                                            /\ input.time[t].month <
                                               ParseTimeStats(input.time_stats).start_month
                                         THEN input.time[t].year - 1
                                         ELSE input.time[t].year : t \in DOMAIN input.time})

\* "annual:min" returned the means of the year of the lowest total, which are
\* not the per-polygon minima
C18_Witness ==
    /\ NcReturned
    /\ WindowOf(input) = <<"annual">>
    /\ \E item \in ItemsOf(<<"min">>) :
        /\ OfRankedYear(<<"min">>, item.values)
        /\ item.values # Plain(<<"min">>, AllRows(input))


\* the weight mass of polygon k: the sum of the weight where the index
\* array holds k, 1 for a mapping without weight
PolyMass(self, k) ==
    IF self.weight = NoWeight THEN <<1, 1>>
    ELSE RatSum(Concat([l \in DOMAIN self.weight |->
            LET cs == Sorted({c \in Cells(self.idx_ar) : self.idx_ar.a[l][c] = k})
            IN [j \in DOMAIN cs |-> self.weight[l][cs[j]]]]))

\* the window-year a time step belongs to: the year that began in the
\* previous calendar year for a month before the start month
WindowYear(stamp, start_month) ==
    IF stamp.month < start_month
    THEN <<stamp.year - 1, stamp.year>>
    ELSE <<stamp.year, stamp.year + 1>>

WindowYears(in, start_month) ==
    {WindowYear(in.time[t], start_month) : t \in DOMAIN in.time}

\* a polygon's mean value over the time steps of a window-year
YearMean(in, start_month, wy, k) ==
    LET steps == Sorted({t \in DOMAIN in.time :
                            WindowYear(in.time[t], start_month) = wy})
    IN Mean([j \in DOMAIN steps |-> FromInt(in.var[steps[j]][k])])

\* the total of a window-year: over the polygons, weight mass times mean
MassTotal(self, in, start_month, wy) ==
    RatSum([k \in DOMAIN self.poly_idx |->
        RatMul(PolyMass(self, k), YearMean(in, start_month, wy, k))])

\* a call with the wrapping window "Jul-Jun" and the statistic min has ended
WaterYearMin ==
    /\ input.kind = "netcdf"
    /\ input.time_stats = <<<<"Jul", "Jun">>, <<<<"min">>>>>>
    /\ pc \in {"done", "raised"}

\* C19: the claim as stated.  "Jul-Jun:min" returns, under min, the
\* per-polygon means of a window-year whose total of weight mass times mean
\* is the lowest.
C19_AsStated ==
    WaterYearMin =>
        /\ NcReturned
        /\ \A item \in ItemsOf(<<"min">>) :
            \E wy \in WindowYears(input, 7) :
                /\ item.values = [k \in DOMAIN obj.poly_idx |->
                                     YearMean(input, 7, wy, k)]
                /\ \A other \in WindowYears(input, 7) :
                    RatLeq(MassTotal(obj, input, 7, wy),
                           MassTotal(obj, input, 7, other))

\* on a mapping without weight "Jul-Jun:min" returned the means of the
\* water year of the lowest total, which are not the per-polygon minima
C19_Witness ==
    /\ WaterYearMin
    /\ NcReturned
    /\ obj.weight = NoWeight
    /\ local.labels = <<<<1999, 2000>>, <<2000, 2001>>>>
    /\ \E item \in ItemsOf(<<"min">>) :
        /\ OfRankedYear(<<"min">>, item.values)
        /\ item.values # Plain(<<"min">>, AllRows(input))

\* the names of statistics the call accepts by the claim: mean, median,
\* min, max and exactly quantile(<float>)
KnownName(tstats) ==
    \/ tstats \in {<<"mean">>, <<"median">>, <<"min">>, <<"max">>}
    \/ /\ Len(tstats) = 3
       /\ tstats[1] = "quantile("
       /\ tstats[2] \in NumberTexts
       /\ tstats[3] = ")"

\* the list of statistics of a time_stats string
StatsOf(in) == in.time_stats[Len(in.time_stats)]

\* the call's list of statistics holds a name that is not known, behind no
\* window or a good one
UnknownName ==
    /\ input.kind = "netcdf"
    /\ ParseTimeStats(input.time_stats).error = ""
    /\ \E i \in DOMAIN StatsOf(input) : ~KnownName(StatsOf(input)[i])

\* C20: the claim as stated.  With an unknown name in the list the call
\* never returns, loads no dataset and projects no statistic, and what it
\* raises is a ValueError.
C20_AsStated ==
    UnknownName =>
        /\ pc # "done"
        /\ EventsOf("load") = {}
        /\ EventsOf("project") = {}
        /\ pc = "raised" => ret.kind = "ValueError"

\* the unknown name of a list was reached on a source with a time dimension
\* and raised ValueError
C20_Witness ==
    /\ UnknownName
    /\ input.has_time
    /\ pc = "raised"
    /\ ret = ValueError("unhandled time stats")


\* array_from_netcdf has computed month_sel
Masked == input.kind = "netcdf" /\ local.month_sel # <<>>

\* the months of the cyclic interval from s to e
CyclicInterval(s, e) == IF s <= e THEN s..e ELSE (s..12) \cup (1..e)

\* the months of the time steps month_sel selects
SelectedMonths ==
    {input.time[t].month : t \in {u \in DOMAIN input.time : local.month_sel[u]}}

\* C21: for every start month s and end month e, month_sel selects the time
\* steps whose month is in the cyclic interval from s to e and no other, the
\* interval has ((e - s) mod 12) + 1 months, and when e - s + 1 is a multiple
\* of 12 nothing is masked and every time step is kept.
C21_MonthMask ==
    Masked =>
        LET s == local.start_month
            e == local.end_month
        IN /\ \A t \in DOMAIN input.time :
                local.month_sel[t] <=> input.time[t].month \in CyclicInterval(s, e)
           /\ Cardinality(CyclicInterval(s, e)) = ((e - s) % 12) + 1
           /\ input.time = YearAxis =>
                Cardinality(SelectedMonths) = ((e - s) % 12) + 1
           /\ (e - s + 1) % 12 = 0 =>
                /\ ~local.partial
                /\ \A t \in DOMAIN input.time : local.month_sel[t]
                /\ pc = "stats" /\ local.done = 0 => local.var = AllRows(input)
           /\ (pc = "stats" /\ local.done = 0 /\ input.time = YearAxis) =>
                /\ Len(local.var) = ((e - s) % 12) + 1
                /\ {row[1] : row \in Range(local.var)} =
                       {FromInt(m) : m \in CyclicInterval(s, e)}

\* "Nov-Feb" on a source of one year kept the steps of November, December,
\* January and February
C21_Witness ==
    /\ Masked
    /\ input.time = YearAxis
    /\ local.start_month = 11
    /\ local.end_month = 2
    /\ SelectedMonths = {11, 12, 1, 2}
    /\ pc = "stats"
    /\ Len(local.var) = 4


\* the fine pixels of a raster that are not zero
NonZero(ar) == {p \in DOMAIN ar : ar[p] # 0}

\* the loop over the levels has ended
Levelled ==
    /\ input.kind = "input"
    /\ input.refine > 1
    /\ pc \in {"construct", "writecache", "done"}
    /\ local.rasterized # <<>>

\* one pass of the loop: with a non-zero fine pixel left it zeroes at least
\* one and no zero pixel becomes non-zero, it records one level, and the
\* loop goes on exactly when a non-zero pixel is left and fewer than
\* max_levels levels are recorded
LevelPass ==
    (pc = "level" /\ local' # local) =>
        /\ NonZero(local'.idx_ar) \subseteq NonZero(local.idx_ar)
        /\ AnyLeft(local.idx_ar) => NonZero(local'.idx_ar) # NonZero(local.idx_ar)
        /\ Len(local'.idx_l) = Len(local.idx_l) + 1
        /\ Len(local'.ar_count_l) = Len(local.ar_count_l) + 1
        /\ ~AnyLeft(local'.idx_ar) => pc' = "construct"
        /\ pc' = "level" <=>
            (AnyLeft(local'.idx_ar) /\ Len(local'.idx_l) < input.max_levels)

\* C22: the loop over the levels terminates and records n levels with
\* 1 <= n <= max_levels; every pass with a non-zero fine pixel left zeroes
\* at least one, the loop ends right after the first pass that leaves the
\* fine raster all zero, and with fewer than max_levels levels recorded no
\* non-zero fine pixel remains.
C22_LevelLoop ==
    /\ [](Levelled =>
            /\ Len(local.idx_l) \in 1..input.max_levels
            /\ Len(local.ar_count_l) = Len(local.idx_l)
            /\ Len(local.idx_l) < input.max_levels => ~AnyLeft(local.idx_ar))
    /\ [](pc = "level" => Len(local.idx_l) < input.max_levels)
    /\ [][LevelPass]_vars
    /\ (pc = "level") ~> (pc = "construct")

\* two levels were recorded and the second pass left the fine raster all zero
C22_Witness ==
    /\ Levelled
    /\ pc = "construct"
    /\ Len(local.idx_l) = 2
    /\ ~AnyLeft(local.idx_ar)
    /\ AnyLeft(local.rasterized)


\* from_grid_vector has returned a refined mapping it built
BuiltRefined == Rasterized /\ input.refine > 1 /\ obj.kind = "GridPolyConv"

\* the number of fine pixels of a cell that the rasterization gave to polygon v
SubCells(c, v) ==
    Cardinality({p \in Block(c, input.grid, input.refine) : local.rasterized[p] = v})

\* the polygons that have fine pixels in a cell
PolygonsIn(c) ==
    {local.rasterized[p] : p \in Block(c, input.grid, input.refine)} \ {0}

\* the polygons recorded for a cell below level k
RecordedBelow(c, k) == {obj.idx_ar.a[j][c] : j \in 1..(k - 1)}

NoneRasterized == local.rasterized # <<>> /\ Range(local.rasterized) = {0}

\* the features were rasterized and some, but not all, polygon indexes are absent
SomeMissing ==
    /\ local.rasterized # <<>>
    /\ Range(local.rasterized) \ {0} # {}
    /\ Range(local.rasterized) \ {0} # Range(local.idxs)

Logged(level, msg) == LogRecord(level, msg) \in Range(local.log)

\* C24 as stated: when none of the polygon indexes is rasterized the
\* constructor logs 'none were rasterized' at error level; when only some are missing it logs at info level
C24_AsStated ==
    /\ NoneRasterized => Logged("error", "none were rasterized")
    /\ SomeMissing => \A r \in Range(local.log) : r.level = "info"

\* the part of C24 the code does: an empty raster is reported at info level as
\* a subset, the call does not abort and returns a mapping
C24_Witness ==
    /\ NoneRasterized
    /\ Logged("info", "subset of polygon indexes were rasterized")
    /\ Returned
    /\ obj.kind = "GridPolyConv"

\* some polygon indexes are missing from the raster and the report is at info level
C24_SomeMissing ==
    /\ SomeMissing
    /\ Logged("info", "missing idx")
    /\ Returned


(***************************************************************************)
(* The count of selected fine pixels of one cell, for any refine factor:   *)
(* the checks of refine, the choice of frac_dtype and the sum resampling   *)
(* into count2d = np.zeros(grid.shape, dtype=frac_dtype).                  *)
(***************************************************************************)
MaxFactor == 256

\* frac_dtype = np.uint16 if refine >= 16 else np.uint8
frac_dtype(refine) == IF refine >= 16 THEN "uint16" ELSE "uint8"

\* np.iinfo(dtype).max
iinfo_max(dtype) == IF dtype = "uint16" THEN 65535 ELSE 255

\* what an array of dtype can hold after a sum of n is written to it: n when it
\* fits, else the saturated or the wrapped value, depending on the build
Stored(dtype, n) ==
    IF n <= iinfo_max(dtype) THEN {n}
    ELSE {iinfo_max(dtype), n % (iinfo_max(dtype) + 1)}

\* numbers of fine pixels of a cell of refine x refine pixels that one polygon covers
SelectedCounts(refine) ==
    {k \in {0, 1, refine, refine * refine - refine, refine * refine - 1,
            refine * refine} : k >= 0}

\* one cell of a grid refined by refine, selected of its fine pixels in sel2d
CellInput ==
    \E refine \in 0..MaxFactor : \E selected \in SelectedCounts(refine) :
        input = [kind |-> "cell", refine |-> refine, max_levels |-> 1,
                 selected |-> selected]

NoCountLocals == [kind |-> "locals", frac_dtype |-> "", count2d |-> 0]

InitCount ==
    /\ CellInput
    /\ fs = EmptyFileSystem
    /\ pc = "validate"
    /\ local = NoCountLocals
    /\ trace = <<>>
    /\ obj = None
    /\ call = None
    /\ ret = None
    /\ ret2 = None
    /\ args = None
    /\ shared = {}
    /\ pickled = None
    /\ loaded = None

\* refine < 1 raises ValueError; any other int is accepted
ValidateRefine ==
    /\ pc = "validate"
    /\ IF ConfigCheck(input.refine, input.max_levels) # ""
       THEN Raise(ValueError(ConfigCheck(input.refine, input.max_levels)))
       ELSE /\ pc' = IF input.refine > 1 THEN "dtype" ELSE "construct"
            /\ UNCHANGED obj
    /\ UNCHANGED <<call, ret, lifeVars, input, fs, local, trace>>

ChooseDtype ==
    /\ pc = "dtype"
    /\ local' = [local EXCEPT !.frac_dtype = frac_dtype(input.refine)]
    /\ pc' = "sum"
    /\ UNCHANGED <<obj, call, ret, lifeVars, input, fs, trace>>

\* reproject(sel2d.astype(np.uint8), count2d, resampling=Resampling.sum)
SumCount ==
    /\ pc = "sum"
    /\ \E c \in Stored(local.frac_dtype, input.selected) :
          local' = [local EXCEPT !.count2d = c]
    /\ pc' = "counted"
    /\ UNCHANGED <<obj, call, ret, lifeVars, input, fs, trace>>

NextCount ==
    \/ ValidateRefine
    \/ ChooseDtype
    \/ SumCount

SpecCount == InitCount /\ [][NextCount]_vars

(***************************************************************************)
(* C25: the range of the counts                                            *)
(***************************************************************************)
Counted == pc = "counted"

\* C25 as stated: for every accepted refine >= 2 the count of a level in a
\* cell, at most refine * refine, is held without overflow by the dtype chosen
\* for counts, uint8 (max 255) when refine < 16 and uint16 (max 65535)
\* when refine >= 16
C25_AsStated ==
    Counted =>
        /\ local.frac_dtype = (IF input.refine < 16 THEN "uint8" ELSE "uint16")
        /\ input.selected <= iinfo_max(local.frac_dtype)
        /\ local.count2d = input.selected

\* the count of a fully covered cell at the first refine of each dtype's
\* range is held as it is
C25_Witness ==
    /\ Counted
    /\ input.refine \in {15, 16}
    /\ input.selected = input.refine * input.refine
    /\ local.count2d = input.selected

\* below refine = 256 every count is held as it is
C25_Below256 ==
    (Counted /\ input.refine < 256) => local.count2d = input.selected


(***************************************************************************)
(* GridPolyConv.__eq__: two objects built from the caller's arrays are     *)
(* compared, or one is compared with an object of another class.           *)
(***************************************************************************)
\* np.testing.assert_array_equal(x, y) raises no AssertionError
assert_array_equal(x, y) == x.ndim = y.ndim /\ Shape(x) = Shape(y) /\ x.a = y.a

\* self.__class__.__name__
ClassName(o) == o.kind

\* __eq__(self, other): the class names, then poly_idx, then idx_ar; the
\* return in the try block ends the method before ar_count is looked at
__eq__(self, other) ==
    IF ClassName(self) # ClassName(other) THEN FALSE
    ELSE IF self.poly_idx # other.poly_idx THEN FALSE
    ELSE assert_array_equal(self.idx_ar, other.idx_ar)

Bool(b) == [kind |-> "bool", value |-> b]

\* the caller's arrays for self (args) and for other (input)
InitEq ==
    /\ args \in ConstructorArgs
    /\ input \in ConstructorArgs
    /\ obj = None
    /\ call = None
    /\ ret = None
    /\ ret2 = None
    /\ shared = {}
    /\ pickled = None
    /\ loaded = None
    /\ fs = None
    /\ pc = "idle"
    /\ local = None
    /\ trace = <<>>

\* self = GridPolyConv(...); other = GridPolyConv(...)
ConstructBoth ==
    /\ pc = "idle"
    /\ obj' = GridPolyConv(args.poly_idx, args.idx_ar, args.ar_count)
    /\ loaded' = GridPolyConv(input.poly_idx, input.idx_ar, input.ar_count)
    /\ pc' = IF obj'.kind = "GridPolyConv" THEN "built" ELSE "raised"
    /\ UNCHANGED <<call, ret, ret2, args, shared, pickled, input, fs, local, trace>>

\* self == other, other a GridPolyConv
Compare ==
    /\ pc = "built"
    /\ loaded.kind = "GridPolyConv"
    /\ ret' = Bool(__eq__(obj, loaded))
    /\ pc' = "compared"
    /\ UNCHANGED <<obj, call, ret2, args, shared, pickled, loaded, input, fs, local, trace>>

\* self == other, other not a GridPolyConv (here the arguments' record)
CompareOther ==
    /\ pc = "built"
    /\ ret' = Bool(__eq__(obj, args))
    /\ pc' = "compared_other"
    /\ UNCHANGED <<obj, call, ret2, args, shared, pickled, loaded, input, fs, local, trace>>

NextEq ==
    \/ ConstructBoth
    \/ Compare
    \/ CompareOther

SpecEq == InitEq /\ [][NextEq]_vars

(***************************************************************************)
(* C26: what equality compares                                             *)
(***************************************************************************)
Compared == pc = "compared"

\* both None, or array-equal
SameCount(x, y) ==
    IF x = NoArray \/ y = NoArray THEN x = NoArray /\ y = NoArray
    ELSE assert_array_equal(x, y)

\* two refined mappings with the same poly_idx and idx_ar and different ar_count
DifferInCountOnly ==
    /\ obj.ar_count # NoArray
    /\ loaded.ar_count # NoArray
    /\ obj.poly_idx = loaded.poly_idx
    /\ assert_array_equal(obj.idx_ar, loaded.idx_ar)
    /\ ~assert_array_equal(obj.ar_count, loaded.ar_count)

\* C26 as stated: two GridPolyConv objects are equal exactly when their
\* poly_idx are equal, their idx_ar are array-equal and their ar_count are
\* both None or array-equal; refined mappings that differ only in ar_count
\* are unequal
C26_AsStated ==
    Compared =>
        (ret.value <=> /\ obj.poly_idx = loaded.poly_idx
                       /\ assert_array_equal(obj.idx_ar, loaded.idx_ar)
                       /\ SameCount(obj.ar_count, loaded.ar_count))

\* two refined mappings that differ only in ar_count were compared
C26_Witness == Compared /\ DifferInCountOnly /\ ret.value

\* what the code does: equality is that of poly_idx and idx_ar
C26_AsCoded ==
    Compared =>
        (ret.value <=> /\ obj.poly_idx = loaded.poly_idx
                       /\ assert_array_equal(obj.idx_ar, loaded.idx_ar))

====
